---- MODULE Spec2Model ----
(***************************************************************************)
(* Model of the world-object store of vault13 (src/game/object.rs):        *)
(* the handle table, the per-elevation tile index with its draw order,     *)
(* and the spatial queries built on top of it.                             *)
(***************************************************************************)
EXTENDS Integers, Sequences, FiniteSets, TLC

(* ----------------------------- bounds --------------------------------- *)

\* Number of objects that may be live at the same time.
MaxObjects == 3
\* Number of times the container may be cleared in one behaviour.
MaxClears == 1
\* Largest x + y of a screen shift the callers set or accumulate.
MaxShift == 1
\* Tile grid of the container: GridWidth x GridHeight tiles per elevation.
GridWidth == 1
GridHeight == 14
ElevationCount == 2
\* Number of objects that may be live in the shot behaviours.
MaxRayObjects == 4
\* Largest x + y a screen shift may accumulate to in the shift behaviours.
MaxShiftSum == 2

(* ----------------------------- values --------------------------------- *)

\* Option<T>: None is the empty tuple, Some(v) the one-element tuple.
None == <<>>
Some(v) == <<v>>
Unwrap(o) == o[1]

Point(x, y) == [x |-> x, y |-> y]
EPoint(e, p) == [elevation |-> e, point |-> p]

PointAdd(p, q) == Point(p.x + q.x, p.y + q.y)

Points == {Point(x, y) : x \in 0 .. GridWidth - 1, y \in 0 .. GridHeight - 1}
Elevations == 0 .. ElevationCount - 1
Positions == {EPoint(e, p) : e \in Elevations, p \in Points}

\* FrameId: the entity kind, and for critters the animation and weapon.
Fid(kind, anim, weapon) == [kind |-> kind, anim |-> anim, weapon |-> weapon]

\* Object::new followed by the caller setting the public fields.
Object(fid, pid, pos, flags, shift) ==
    [flags |-> flags, pos |-> pos, screen_shift |-> shift, fid |-> fid,
     frame_idx |-> 0, pid |-> pid, script |-> None,
     sub |-> IF fid.kind = "Critter" THEN Some([damage_flags |-> {}]) ELSE None]

(* --------------------------- frame database --------------------------- *)

\* Per-frame shift of the current frame of an object (Frame::shift).
FrameShift(fid, frame_idx) ==
    IF fid.kind = "Critter" /\ fid.anim = "Walk" THEN Point(1, 0)
    ELSE Point(0, 0)

\* Shifts of the frames of the TakeOut animation of an armed critter.
TakeOutFrameShifts == <<Point(0, 1), Point(0, 0)>>

\* Center of the frame list of the unarmed Stand animation.
StandCenter == Point(1, -1)

RECURSIVE SumPoints(_)
SumPoints(s) ==
    IF s = <<>> THEN Point(0, 0) ELSE PointAdd(Head(s), SumPoints(Tail(s)))

(* --------------------------- ObjectProtoId ---------------------------- *)

\* A u32 is the tuple of its four bytes, most significant first.
U32(b1, b2, b3, b4) == <<b1, b2, b3, b4>>

\* ProtoId: a prototype id, kept in its packed form.
\* ObjectProtoId: None, Dude, or ProtoId(p).
PidNone == [tag |-> "None", id |-> U32(0, 0, 0, 0)]
PidDude == [tag |-> "Dude", id |-> U32(0, 0, 0, 0)]
PidProto(p) == [tag |-> "ProtoId", id |-> p]

\* EntityKind has the values 0 (Item) to LastEntityKind (Skilldex).
LastEntityKind == 10

\* ProtoId::from_packed: the top byte is the entity kind, the rest the index.
ProtoIdFromPacked(v) == IF v[1] <= LastEntityKind THEN Some(v) ELSE None

\* ProtoId::pack
ProtoIdPack(p) == p

\* ObjectProtoId::pack that gives Dude the pattern of None.
ObjectProtoIdPack_DudeAsNone(x) ==
    CASE x.tag = "None" -> U32(255, 255, 255, 255)
      [] x.tag = "Dude" -> U32(255, 255, 255, 255)
      [] x.tag = "ProtoId" -> ProtoIdPack(x.id)

\* ObjectProtoId::pack
ObjectProtoIdPack(x) ==
    CASE x.tag = "None" -> U32(255, 255, 255, 255)
      [] x.tag = "Dude" -> U32(1, 0, 0, 0)
      [] x.tag = "ProtoId" -> ProtoIdPack(x.id)

\* ObjectProtoId::from_packed
ObjectProtoIdFromPacked(v) ==
    IF v = U32(255, 255, 255, 255) THEN Some(PidNone)
    ELSE IF v = U32(1, 0, 0, 0) THEN Some(PidDude)
    ELSE IF ProtoIdFromPacked(v) # None
         THEN Some(PidProto(Unwrap(ProtoIdFromPacked(v))))
         ELSE None

\* ObjectProtoId::read on a reader holding the bytes bytes.
ObjectProtoIdRead(bytes) ==
    IF Len(bytes) < 4 THEN [ok |-> FALSE, err |-> "UnexpectedEof"]
    ELSE LET v == SubSeq(bytes, 1, 4)
         IN  IF ObjectProtoIdFromPacked(v) # None
             THEN [ok |-> TRUE, value |-> Unwrap(ObjectProtoIdFromPacked(v))]
             ELSE [ok |-> FALSE, err |-> "InvalidData"]

(* ------------------------------ state --------------------------------- *)

VARIABLES
    slots,      \* handles: SlotMap slots, <<version, next_free>> per index
    free_head,  \* handles: head of the SlotMap free list
    objects,    \* objects: SecondaryMap from handle to Object
    by_pos,     \* by_pos: tile lists, one per elevation and tile
    detached,   \* detached: handles of objects without a position
    issued,     \* history: the handles insert has returned, each with the
                \* number of clear calls that preceded it
    clears,     \* history: number of clear calls so far
    rd,         \* the bytes left in the reader ObjectProtoId::read is given
    codec       \* the last ObjectProtoId conversion: its input and its result

vars == <<slots, free_head, objects, by_pos, detached, issued, clears, rd, codec>>

Handle(idx, version) == [idx |-> idx, version |-> version]

Live == DOMAIN objects

\* Objects::contains
Contains(h) == h \in DOMAIN objects

\* Objects::at
At(bp, pos) == bp[pos]

(* --------------------------- draw order ------------------------------- *)

\* cmp_objs without its flatness test.
cmp_objs_IgnoresFlat(o1, o2) ==
    LET shift == PointAdd(o1.screen_shift, FrameShift(o1.fid, o1.frame_idx))
        other_shift == PointAdd(o2.screen_shift, FrameShift(o2.fid, o2.frame_idx))
    IN  IF shift.y < other_shift.y THEN "Less"
        ELSE IF shift.y > other_shift.y THEN "Greater"
        ELSE IF shift.x < other_shift.x THEN "Less"
        ELSE IF shift.x > other_shift.x THEN "Greater"
        ELSE "Equal"

\* Objects::cmp_objs; both objects are placed on one elevation.
cmp_objs(o1, o2) ==
    LET flat == "Flat" \in o1.flags
        other_flat == "Flat" \in o2.flags
        shift == PointAdd(o1.screen_shift, FrameShift(o1.fid, o1.frame_idx))
        other_shift == PointAdd(o2.screen_shift, FrameShift(o2.fid, o2.frame_idx))
    IN  IF flat # other_flat THEN (IF flat THEN "Less" ELSE "Greater")
        ELSE IF shift.y < other_shift.y THEN "Less"
        ELSE IF shift.y > other_shift.y THEN "Greater"
        ELSE IF shift.x < other_shift.x THEN "Less"
        ELSE IF shift.x > other_shift.x THEN "Greater"
        ELSE "Equal"

\* slice::binary_search_by as insert_into_tile_grid calls it; ords is the
\* ordering the probe closure gives each list element against the inserted
\* object.  On a list partitioned by the probe the result is Ok(i) for any i
\* whose element is Equal, or Err(i) with i the insertion point; on any
\* other list the result is unspecified.  Indices are 0-based as in the
\* source.
BinarySearchBy(ords) ==
    LET n == Len(ords)
        rank(c) == CASE c = "Less" -> 0 [] c = "Equal" -> 1 [] c = "Greater" -> 2
        partitioned ==
            \A i, j \in 1 .. n : i < j => rank(ords[i]) <= rank(ords[j])
        equals == {i \in 0 .. n - 1 : ords[i + 1] = "Equal"}
    IN  IF partitioned
        THEN IF equals # {}
             THEN {[ok |-> TRUE, i |-> i] : i \in equals}
             ELSE {[ok |-> FALSE,
                    i |-> Cardinality({i \in 1 .. n : ords[i] = "Less"})]}
        ELSE {[ok |-> TRUE, i |-> i] : i \in equals}
             \cup {[ok |-> FALSE, i |-> i] : i \in 0 .. n}

\* insert_into_tile_grid without the scan past the equal objects.
SkipEqual_None(objs, list, obj, i) == i

\* The while loop of insert_into_tile_grid: skip the group of equal objects.
RECURSIVE SkipEqual(_, _, _, _)
SkipEqual(objs, list, obj, i) ==
    IF i < Len(list) /\ cmp_objs(obj, objs[list[i + 1]]) = "Equal"
    THEN SkipEqual(objs, list, obj, i + 1)
    ELSE i

\* The indices insert_into_tile_grid may compute for obj in list.
InsertIndex(objs, list, obj) ==
    LET ords == [k \in 1 .. Len(list) |-> cmp_objs(objs[list[k]], obj)]
    IN  {IF r.ok THEN SkipEqual(objs, list, obj, r.i) ELSE r.i :
            r \in BinarySearchBy(ords)}

\* Vec::push in place of the insertion at the computed index.
VecInsert_Push(list, i, h) == Append(list, h)

\* Vec::insert(i, h), i 0-based.
VecInsert(list, i, h) ==
    SubSeq(list, 1, i) \o <<h>> \o SubSeq(list, i + 1, Len(list))

\* Vec::retain(|hh| hh != h)
RECURSIVE VecRetainNe(_, _)
VecRetainNe(list, h) ==
    IF list = <<>> THEN <<>>
    ELSE IF Head(list) = h THEN VecRetainNe(Tail(list), h)
    ELSE <<Head(list)>> \o VecRetainNe(Tail(list), h)

(* ------------------------ tile grid maintenance ----------------------- *)

\* The part of the container the tile-grid helpers work on.
Store(objs, bp, det) == [objects |-> objs, by_pos |-> bp, detached |-> det]

Cur == Store(objects, by_pos, detached)

\* remove_from_tile_grid that forgets to take h out of its tile list.
RemoveFromTileGrid_KeepsTile(st, h) ==
    LET objs == [st.objects EXCEPT ![h].pos = None]
    IN  Store(objs, st.by_pos, VecRetainNe(st.detached, h))

\* Objects::remove_from_tile_grid: the store afterwards; the old position is
\* st.objects[h].pos.
RemoveFromTileGrid(st, h) ==
    LET old_pos == st.objects[h].pos
        objs == [st.objects EXCEPT ![h].pos = None]
    IN  IF old_pos # None
        THEN Store(objs,
                   [st.by_pos EXCEPT ![Unwrap(old_pos)] = VecRetainNe(@, h)],
                   st.detached)
        ELSE Store(objs, st.by_pos, VecRetainNe(st.detached, h))

\* insert_into_tile_grid that ignores its reset_screen_shift argument.
InsertIntoTileGrid_KeepsShift(st, h, pos, reset_screen_shift) ==
    IF pos # None
    THEN LET p == Unwrap(pos)
             objs == [st.objects EXCEPT ![h].pos = pos]
             list == At(st.by_pos, p)
         IN  {Store(objs, [st.by_pos EXCEPT ![p] = VecInsert(list, i, h)],
                    st.detached) :
                 i \in InsertIndex(objs, list, objs[h])}
    ELSE {Store(st.objects, st.by_pos, Append(st.detached, h))}

\* Objects::insert_into_tile_grid: the stores it may produce.
InsertIntoTileGrid(st, h, pos, reset_screen_shift) ==
    IF pos # None
    THEN LET p == Unwrap(pos)
             objs == [st.objects EXCEPT
                         ![h].pos = pos,
                         ![h].screen_shift =
                             IF reset_screen_shift THEN Point(0, 0) ELSE @]
             list == At(st.by_pos, p)
         IN  {Store(objs, [st.by_pos EXCEPT ![p] = VecInsert(list, i, h)],
                    st.detached) :
                 i \in InsertIndex(objs, list, objs[h])}
    ELSE {Store(st.objects, st.by_pos, Append(st.detached, h))}

Becomes(st) ==
    /\ objects' = st.objects
    /\ by_pos' = st.by_pos
    /\ detached' = st.detached

(* ----------------------------- handles -------------------------------- *)

\* SlotMap::insert: the key it returns and the slot table afterwards.
SlotInsert ==
    IF free_head <= Len(slots)
    THEN LET v == IF slots[free_head].version % 2 = 0
                   THEN slots[free_head].version + 1
                   ELSE slots[free_head].version
         IN  [key |-> Handle(free_head, v),
              slots |-> [slots EXCEPT ![free_head].version = v],
              free_head |-> slots[free_head].next_free]
    ELSE [key |-> Handle(Len(slots) + 1, 1),
          slots |-> Append(slots, [version |-> 1, next_free |-> 0]),
          free_head |-> Len(slots) + 2]

\* A clear that frees the slots without bumping their versions.
RECURSIVE SlotDrain_NoBump(_, _, _)
SlotDrain_NoBump(sl, fh, i) ==
    IF i > Len(sl) THEN [slots |-> sl, free_head |-> fh]
    ELSE SlotDrain_NoBump([sl EXCEPT ![i].next_free = fh], i, i + 1)

\* SlotMap::clear: every occupied slot is freed, its version bumped.
RECURSIVE SlotDrain(_, _, _)
SlotDrain(sl, fh, i) ==
    IF i > Len(sl) THEN [slots |-> sl, free_head |-> fh]
    ELSE IF sl[i].version % 2 = 1
         THEN SlotDrain([sl EXCEPT ![i] = [version |-> @.version + 1, next_free |-> fh]],
                        i, i + 1)
         ELSE SlotDrain(sl, fh, i + 1)

(* --------------------------- hex geometry ----------------------------- *)

\* Direction, in the order of Direction::iter.
Directions == <<"NE", "E", "SE", "SW", "W", "NW">>

\* Step of one tile per direction, for a tile of even and of odd x.
AdvanceMap ==
    <<<<Point(1, -1), Point(1, 0), Point(0, 1), Point(-1, 0), Point(-1, -1), Point(0, -1)>>,
      <<Point(1, 0), Point(1, 1), Point(0, 1), Point(-1, 1), Point(-1, 0), Point(0, -1)>>>>

\* TileGrid::go(p, direction, 1): the adjacent tile, None outside the grid.
Go(p, d) ==
    LET next == PointAdd(p, AdvanceMap[(p.x % 2) + 1][d])
    IN  IF next \in Points THEN Some(next) ELSE None

Abs(n) == IF n < 0 THEN -n ELSE n

Max(a, b) == IF a > b THEN a ELSE b

\* hex::distance: the number of steps between two tiles.
HexDistance(p1, p2) ==
    LET r1 == p1.y - (p1.x \div 2)
        r2 == p2.y - (p2.x \div 2)
        dq == p1.x - p2.x
        dr == r1 - r2
    IN  Max(Max(Abs(dq), Abs(dr)), Abs(dq + dr))

(* ------------------------------ queries ------------------------------- *)

HasFlag(h, f) == f \in objects[h].flags

\* Object::kind
Kind(h) == objects[h].fid.kind

\* is_blocked_at's check closure that lets an object block itself.
BlockCheck_BlocksSelf(obj, h) ==
    /\ Kind(h) \in {"Critter", "Scenery", "Wall"}
    /\ ~(HasFlag(h, "TurnedOff") \/ HasFlag(h, "NoBlock"))

\* The check closure of is_blocked_at.
BlockCheck(obj, h) ==
    /\ h # obj
    /\ Kind(h) \in {"Critter", "Scenery", "Wall"}
    /\ ~(HasFlag(h, "TurnedOff") \/ HasFlag(h, "NoBlock"))

\* is_blocked_at that looks at the tile itself only.
is_blocked_at_TileOnly(obj, pos) ==
    \E k \in 1 .. Len(At(by_pos, pos)) : BlockCheck(obj, At(by_pos, pos)[k])

\* Objects::is_blocked_at
is_blocked_at(obj, pos) ==
    \/ \E k \in 1 .. Len(At(by_pos, pos)) : BlockCheck(obj, At(by_pos, pos)[k])
    \/ \E d \in 1 .. Len(Directions) :
        LET near == Go(pos.point, d)
        IN  /\ near # None
            /\ LET list == At(by_pos, EPoint(pos.elevation, Unwrap(near)))
               IN  \E k \in 1 .. Len(list) :
                       HasFlag(list[k], "MultiHex") /\ BlockCheck(obj, list[k])

\* The test shot_blocker_at's check closure applies to one handle.
ShotBlocks(obj, h, multi_hex_only) ==
    LET non_shoot_thru == IF multi_hex_only THEN FALSE ELSE ~HasFlag(h, "ShootThru")
    IN  /\ ~HasFlag(h, "TurnedOff")
        /\ (~HasFlag(h, "NoBlock") \/ non_shoot_thru)
        /\ h # obj
        /\ Kind(h) \in {"Scenery", "Wall", "Critter"}

\* The check closure of shot_blocker_at, from the k-th handle of the list on.
RECURSIVE ShotCheck(_, _, _, _)
ShotCheck(obj, list, k, multi_hex_only) ==
    IF k > Len(list) THEN None
    ELSE IF multi_hex_only /\ ~HasFlag(list[k], "MultiHex") THEN None
    ELSE IF ShotBlocks(obj, list[k], multi_hex_only) THEN Some(list[k])
    ELSE ShotCheck(obj, list, k + 1, multi_hex_only)

\* The loop of shot_blocker_at over the neighbour tiles, from direction d on.
RECURSIVE ShotCheckNear(_, _, _)
ShotCheckNear(obj, pos, d) ==
    IF d > Len(Directions) THEN None
    ELSE LET p == Go(pos.point, d)
             r == IF p = None THEN None
                  ELSE ShotCheck(obj, At(by_pos, EPoint(pos.elevation, Unwrap(p))), 1, TRUE)
         IN  IF r # None THEN r ELSE ShotCheckNear(obj, pos, d + 1)

\* Objects::shot_blocker_at
shot_blocker_at(obj, pos) ==
    LET r == ShotCheck(obj, At(by_pos, pos), 1, FALSE)
    IN  IF r # None THEN r ELSE ShotCheckNear(obj, pos, 1)

\* Object::distance with the subtraction applied at distance zero as well.
ObjectDistance_Unguarded(o1, o2) ==
    IF o1.pos = None \/ o2.pos = None THEN None
    ELSE LET r0 == HexDistance(Unwrap(o1.pos).point, Unwrap(o2.pos).point)
             r1 == IF "MultiHex" \in o1.flags THEN r0 - 1 ELSE r0
             r2 == IF "MultiHex" \in o2.flags THEN r1 - 1 ELSE r1
         IN  Some(r2)

\* Object::distance
ObjectDistance(o1, o2) ==
    IF o1.pos = None \/ o2.pos = None THEN None
    ELSE LET r0 == HexDistance(Unwrap(o1.pos).point, Unwrap(o2.pos).point)
             r1 == IF r0 > 0 /\ "MultiHex" \in o1.flags THEN r0 - 1 ELSE r0
             r2 == IF r1 > 0 /\ "MultiHex" \in o2.flags THEN r1 - 1 ELSE r1
         IN  Some(r2)

\* Objects::distance
distance(from, to) == ObjectDistance(objects[from], objects[to])

\* The outcome of a call: it returns a value, or it aborts (a panic).
Return(v) == [abort |-> FALSE, value |-> v]
Abort == [abort |-> TRUE]

\* hex::ray(from, to) as is_shot_blocked consumes it: the tiles of the
\* straight line after from, up to and including to.  Tiles of one column
\* lie on a straight line; for any other pair the line steps to the first
\* adjacent tile that is nearer to the target.
RECURSIVE Ray(_, _)
Ray(from, to) ==
    IF from = to THEN <<>>
    ELSE LET nearer == {d \in 1 .. Len(Directions) :
                          /\ Go(from, d) # None
                          /\ HexDistance(Unwrap(Go(from, d)), to) < HexDistance(from, to)}
             straight == {d \in nearer : Unwrap(Go(from, d)).x = to.x /\ from.x = to.x}
             d == IF straight # {} THEN CHOOSE e \in straight : TRUE
                  ELSE CHOOSE e \in nearer : \A f \in nearer : e <= f
             next == Unwrap(Go(from, d))
         IN  <<next>> \o Ray(next, to)

\* The loop of is_shot_blocked from the k-th tile of the ray on.
RECURSIVE ShotLoop(_, _, _, _, _, _)
ShotLoop(shooter, target, elevation, ray, k, last_blocker) ==
    IF k > Len(ray) THEN FALSE
    ELSE LET blocker == shot_blocker_at(shooter, EPoint(elevation, ray[k]))
             changed == blocker # last_blocker /\ blocker # None
         IN  IF /\ changed
                /\ Unwrap(blocker) # shooter /\ Unwrap(blocker) # target
                /\ Kind(Unwrap(blocker)) # "Critter"
             THEN TRUE
             ELSE ShotLoop(shooter, target, elevation, ray, k + 1,
                           IF changed THEN blocker ELSE last_blocker)

\* is_shot_blocked that tests the target's tile only.
is_shot_blocked_TargetTileOnly(shooter, target) ==
    IF objects[shooter].pos = None \/ objects[target].pos = None THEN Abort
    ELSE LET pos == Unwrap(objects[shooter].pos)
             target_pos == Unwrap(objects[target].pos)
         IN  IF pos.elevation # target_pos.elevation THEN Abort
             ELSE Return(ShotLoop(shooter, target, pos.elevation,
                                  <<target_pos.point>>, 1, None))

\* Objects::is_shot_blocked
is_shot_blocked(shooter, target) ==
    IF objects[shooter].pos = None \/ objects[target].pos = None THEN Abort
    ELSE LET pos == Unwrap(objects[shooter].pos)
             target_pos == Unwrap(objects[target].pos)
         IN  IF pos.elevation # target_pos.elevation THEN Abort
             ELSE Return(ShotLoop(shooter, target, pos.elevation,
                                  Ray(pos.point, target_pos.point), 1, None))

\* Objects::is_sight_blocked_at
is_sight_blocked_at(obj, pos) ==
    \E k \in 1 .. Len(At(by_pos, pos)) :
        LET h == At(by_pos, pos)[k]
        IN  /\ ~HasFlag(h, "TurnedOff")
            /\ ~HasFlag(h, "LightThru")
            /\ Kind(h) \in {"Scenery", "Wall"}
            /\ h # obj

\* The tiles the search reaches from its target, nearest first: layers[n]
\* holds the tiles n - 1 steps away through tiles of open.
RECURSIVE Flood(_, _, _)
Flood(layers, seen, open) ==
    LET last == layers[Len(layers)]
        next == {q \in open \ seen :
                    \E p \in last : \E d \in 1 .. Len(Directions) : Go(p, d) = Some(q)}
    IN  IF next = {} THEN layers ELSE Flood(Append(layers, next), seen \cup next, open)

\* The steps from p, which lies in layers[n], down to the tile of layers[1].
RECURSIVE Descend(_, _, _)
Descend(p, n, layers) ==
    IF n = 1 THEN <<>>
    ELSE LET ds == {d \in 1 .. Len(Directions) :
                       Go(p, d) # None /\ Unwrap(Go(p, d)) \in layers[n - 1]}
             d == CHOOSE e \in ds : \A f \in ds : e <= f
         IN  <<Directions[d]>> \o Descend(Unwrap(Go(p, d)), n - 1, layers)

\* PathFinder::find(from, to, smooth, f), blocked being the tiles for which
\* the cost function f answers Blocked: the steps of a shortest path that
\* enters no blocked tile, the empty path when from is to, None when there is
\* no path.  The grid is far smaller than the node budget of the search.
Find(from, to, blocked) ==
    IF from = to THEN Some(<<>>)
    ELSE IF to \in blocked THEN None
    ELSE LET layers == Flood(<<{to}>>, {to}, (Points \ blocked) \cup {from})
             ns == {n \in 1 .. Len(layers) : from \in layers[n]}
         IN  IF ns = {} THEN None
             ELSE Some(Descend(from, CHOOSE n \in ns : TRUE, layers))

\* The greatest hex distance at which can_talk runs the path finder.
TalkDistance == 12

\* can_talk that takes distance TalkDistance for too far.
can_talk_Strict(obj1, obj2) ==
    IF objects[obj1].pos = None \/ objects[obj2].pos = None THEN Abort
    ELSE LET p1 == Unwrap(objects[obj1].pos)
             p2 == Unwrap(objects[obj2].pos)
             blocked == {p \in Points : is_sight_blocked_at(obj1, EPoint(p1.elevation, p))}
         IN  IF p1.elevation # p2.elevation
             THEN Return([result |-> "Unreachable", finds |-> 0])
             ELSE IF HexDistance(p1.point, p2.point) >= TalkDistance
             THEN Return([result |-> "TooFar", finds |-> 0])
             ELSE IF Find(p1.point, p2.point, blocked) # None
             THEN Return([result |-> "Ok", finds |-> 1])
             ELSE Return([result |-> "Unreachable", finds |-> 1])

\* Objects::can_talk: its result and the number of times it ran the path
\* finder.
can_talk(obj1, obj2) ==
    IF objects[obj1].pos = None \/ objects[obj2].pos = None THEN Abort
    ELSE LET p1 == Unwrap(objects[obj1].pos)
             p2 == Unwrap(objects[obj2].pos)
             blocked == {p \in Points : is_sight_blocked_at(obj1, EPoint(p1.elevation, p))}
         IN  IF p1.elevation # p2.elevation
             THEN Return([result |-> "Unreachable", finds |-> 0])
             ELSE IF HexDistance(p1.point, p2.point) > TalkDistance
             THEN Return([result |-> "TooFar", finds |-> 0])
             ELSE IF Find(p1.point, p2.point, blocked) # None
             THEN Return([result |-> "Ok", finds |-> 1])
             ELSE Return([result |-> "Unreachable", finds |-> 1])

\* The distance below which can_talk_now allows talking.
TalkNowDistance == 9

\* can_talk_now that skips the shot test.
can_talk_now_DistanceOnly(obj1, obj2) ==
    IF distance(obj1, obj2) = None THEN Abort
    ELSE Return(Unwrap(distance(obj1, obj2)) < TalkNowDistance)

\* Objects::can_talk_now
can_talk_now(obj1, obj2) ==
    IF distance(obj1, obj2) = None THEN Abort
    ELSE IF ~(Unwrap(distance(obj1, obj2)) < TalkNowDistance) THEN Return(FALSE)
    ELSE IF is_shot_blocked(obj1, obj2).abort THEN Abort
    ELSE Return(~is_shot_blocked(obj1, obj2).value)

\* ProtoDb: the extended flags of the wall prototypes it holds.
ProtoFlagsExt ==
    (U32(3, 0, 0, 1) :> {})
    @@ (U32(3, 0, 0, 2) :> {"WallEastOrWest"})
    @@ (U32(3, 0, 0, 3) :> {"WallNorthCorner"})
    @@ (U32(3, 0, 0, 4) :> {"WallSouthCorner"})
    @@ (U32(3, 0, 0, 5) :> {"WallEastCorner"})

\* Direction as a number, in the order of the enum: NE is 1, NW is 6.
Dir(name) == CHOOSE d \in 1 .. Len(Directions) : Directions[d] = name

\* light_test's update after a non-flat wall with extended flags flags_ext;
\* dir and i are the direction and the index of the light test.
WallUpdate(flags_ext, dir, i, update) ==
    IF "WallEastOrWest" \in flags_ext \/ "WallEastCorner" \in flags_ext
    THEN IF /\ dir # Dir("W")
            /\ dir # Dir("NW")
            /\ (dir # Dir("NE") \/ i >= 8)
            /\ (dir # Dir("SW") \/ i <= 15)
         THEN FALSE ELSE update
    ELSE IF "WallNorthCorner" \in flags_ext
    THEN IF dir # Dir("NE") /\ dir # Dir("NW") THEN FALSE ELSE update
    ELSE IF "WallSouthCorner" \in flags_ext
    THEN IF /\ dir # Dir("NE")
            /\ dir # Dir("E")
            /\ dir # Dir("W")
            /\ dir # Dir("NW")
            /\ (dir # Dir("SW") \/ i <= 15)
         THEN FALSE ELSE update
    ELSE IF /\ dir # Dir("NE")
            /\ dir # Dir("E")
            /\ (dir # Dir("NW") \/ i <= 7)
         THEN FALSE ELSE update

\* The loop of light_test that stops at the first object that is not turned
\* off, whether it blocks or not.
RECURSIVE LightLoop_StopsAtFirst(_, _, _, _, _)
LightLoop_StopsAtFirst(list, k, dir, i, update) ==
    IF k > Len(list) THEN Return([block |-> FALSE, update |-> update])
    ELSE LET obj == objects[list[k]]
             block == "LightThru" \notin obj.flags
         IN  IF "TurnedOff" \in obj.flags
             THEN LightLoop_StopsAtFirst(list, k + 1, dir, i, update)
             ELSE Return([block |-> block, update |-> update])

\* The loop of light_test from the k-th handle of the tile list on.
RECURSIVE LightLoop(_, _, _, _, _)
LightLoop(list, k, dir, i, update) ==
    IF k > Len(list) THEN Return([block |-> FALSE, update |-> update])
    ELSE LET obj == objects[list[k]]
             block == "LightThru" \notin obj.flags
             wall == obj.fid.kind = "Wall" /\ "Flat" \notin obj.flags
             update2 ==
                 IF obj.fid.kind = "Wall"
                 THEN IF "Flat" \notin obj.flags
                      THEN WallUpdate(ProtoFlagsExt[obj.pid.id], dir, i, update)
                      ELSE update
                 ELSE IF block /\ dir >= Dir("E") /\ dir <= Dir("SW")
                      THEN FALSE ELSE update
         IN  IF "TurnedOff" \in obj.flags THEN LightLoop(list, k + 1, dir, i, update)
             ELSE IF wall /\ (obj.pid.tag # "ProtoId" \/ obj.pid.id \notin DOMAIN ProtoFlagsExt)
             THEN Abort
             ELSE IF block THEN Return([block |-> TRUE, update |-> update2])
             ELSE LightLoop(list, k + 1, dir, i, update2)

\* Objects::light_test
light_test(point, dir, i) == LightLoop(At(by_pos, point), 1, dir, i, TRUE)

\* ObjectProtoId::proto_id
ProtoIdOf(pid) == IF pid.tag = "ProtoId" THEN Some(pid.id) ELSE None

\* ProtoId::is_radioactive_goo: the scenery prototypes 0x20003D9 to
\* 0x20003DC.
IsRadioactiveGoo(p) == p[1] = 2 /\ p[2] = 0 /\ p[3] = 3 /\ p[4] \in 217 .. 220

\* ProtoDb: the kill kind of the critter prototypes it holds.
ProtoKillKind ==
    (U32(1, 0, 0, 1) :> "Gecko") @@ (U32(1, 0, 0, 2) :> "Man")

\* TileState
Blocked == [blocked |-> TRUE, cost |-> 0]
Passable(cost) == [blocked |-> FALSE, cost |-> cost]

\* The extra cost of a tile with radioactive goo, for a gecko and for any
\* other critter.
GeckoGooCost == 100
GooCost == 400

\* The cost function path hands to the path finder, for the tile p.
PathCost(obj, elevation, to, allow_neighbor_tile, p) ==
    IF /\ (~allow_neighbor_tile \/ p # to)
       /\ is_blocked_at(obj, EPoint(elevation, p))
    THEN Blocked
    ELSE IF ProtoIdOf(objects[obj].pid) # None
    THEN LET pid == Unwrap(ProtoIdOf(objects[obj].pid))
             list == At(by_pos, EPoint(elevation, p))
             radioactive_goo ==
                 \E k \in 1 .. Len(list) :
                     /\ ProtoIdOf(objects[list[k]].pid) # None
                     /\ IsRadioactiveGoo(Unwrap(ProtoIdOf(objects[list[k]].pid)))
             gecko == /\ pid \in DOMAIN ProtoKillKind
                      /\ ProtoKillKind[pid] = "Gecko"
         IN  Passable(IF radioactive_goo
                      THEN IF gecko THEN GeckoGooCost ELSE GooCost
                      ELSE 0)
    ELSE Passable(0)

\* The path the path finder returns to path.
PathFound(obj, to, allow_neighbor_tile) ==
    LET from == Unwrap(objects[obj].pos)
        blocked == {p \in Points :
                       PathCost(obj, from.elevation, to, allow_neighbor_tile, p).blocked}
    IN  Find(from.point, to, blocked)

\* Objects::path.  Trimming an empty path aborts: path.len() - 1 overflows,
\* or wraps to an index Vec::remove rejects.
Path(obj, to, allow_neighbor_tile) ==
    IF objects[obj].pos = None THEN Return(None)
    ELSE LET from == Unwrap(objects[obj].pos)
             to_blocked == IF allow_neighbor_tile
                           THEN Some(is_blocked_at(obj, EPoint(from.elevation, to)))
                           ELSE None
             r == PathFound(obj, to, allow_neighbor_tile)
         IN  IF to_blocked = Some(TRUE) /\ r # None
             THEN IF Len(Unwrap(r)) = 0 THEN Abort
                  ELSE Return(Some(SubSeq(Unwrap(r), 1, Len(Unwrap(r)) - 1)))
             ELSE Return(r)

\* The tiles of the visible rectangle in the order render0 visits them: row
\* by row, each row from its last column to its first.  The whole grid is
\* visible.
RenderOrder ==
    [n \in 1 .. GridWidth * GridHeight |->
        Point(GridWidth - 1 - ((n - 1) % GridWidth), (n - 1) \div GridWidth)]

\* The inner loop of render0 over a tile list, from its k-th handle on: the
\* handles it submits to the canvas.  Object::render returns at once for a
\* turned-off object.
RECURSIVE RenderList(_, _, _)
RenderList(list, k, flat) ==
    IF k > Len(list) THEN <<>>
    ELSE IF flat /\ ~HasFlag(list[k], "Flat") THEN <<>>
    ELSE IF ~flat /\ HasFlag(list[k], "Flat") THEN RenderList(list, k + 1, flat)
    ELSE (IF HasFlag(list[k], "TurnedOff") THEN <<>>
          ELSE <<[handle |-> list[k], flat |-> flat]>>)
         \o RenderList(list, k + 1, flat)

\* Objects::render0, from the n-th tile of the visible rectangle on.
RECURSIVE render0(_, _, _)
render0(elevation, flat, n) ==
    IF n > Len(RenderOrder) THEN <<>>
    ELSE RenderList(At(by_pos, EPoint(elevation, RenderOrder[n])), 1, flat)
         \o render0(elevation, flat, n + 1)

\* Objects::render: the submissions of the flat pass, then of the other.
Render(elevation) == render0(elevation, TRUE, 1) \o render0(elevation, FALSE, 1)

\* Critter::is_active
is_active(critter) ==
    critter.damage_flags \cap {"LoseTurn", "Dead", "KnockedOut"} = {}

\* Scripts::has_predefined_proc: of the scripts of the inputs, one defines
\* the push procedure.
HasPredefinedProc(sid, proc) == sid = "SidPush" /\ proc = "Push"

\* Objects::can_push
can_push(pusher, pushed, in_combat) ==
    IF \/ Kind(pushed) # "Critter"
       \/ pusher = pushed
       \/ ~is_active(Unwrap(objects[pushed].sub))
    THEN Return(FALSE)
    ELSE IF can_talk(pusher, pushed).abort THEN Abort
    ELSE IF \/ can_talk(pusher, pushed).value.result # "Ok"
            \/ objects[pushed].script = None
    THEN Return(FALSE)
    ELSE IF ~HasPredefinedProc(Unwrap(objects[pushed].script), "Push")
    THEN Return(FALSE)
    ELSE IF in_combat THEN Abort
    ELSE Return(TRUE)

\* The prototypes can_use refuses without asking the prototype database.
\* They are the active dynamite, flare and plastic explosive.
ActiveExplosives == {U32(0, 0, 0, 206), U32(0, 0, 0, 205), U32(0, 0, 0, 209)}

\* ProtoDb::can_use: of the prototypes of the inputs, the flare can be used.
ProtoCanUse(p) == p = U32(0, 0, 0, 79)

\* Objects::can_use
can_use(obj) ==
    IF ProtoIdOf(objects[obj].pid) # None
    THEN IF Unwrap(ProtoIdOf(objects[obj].pid))
              \in ActiveExplosives
         THEN Return(FALSE)
         ELSE Return(ProtoCanUse(Unwrap(ProtoIdOf(objects[obj].pid))))
    ELSE Return(FALSE)

(* ------------------------------ borrows ------------------------------- *)

\* A borrow of the RefCell of the object h: borrow() is shared, borrow_mut()
\* is exclusive.
Shared(h) == [handle |-> h, exclusive |-> FALSE]
Exclusive(h) == [handle |-> h, exclusive |-> TRUE]

\* RefCell's rule for the borrows held at one moment, oldest first: an
\* exclusive borrow of an object is the only borrow of it.
BorrowOk(held) ==
    \A i, j \in 1 .. Len(held) :
        (i # j /\ held[i].handle = held[j].handle)
            => ~held[i].exclusive /\ ~held[j].exclusive

\* The moments of a loop that borrows each handle of a list in turn.
EachShared(list) == {<<Shared(list[k])>> : k \in 1 .. Len(list)}

\* The moments of an inner call made while the borrows of held are alive.
While(held, moments) == {held} \cup {held \o m : m \in moments}

\* The in-grid neighbours of pos that the blocker queries scan.
NearTiles(pos) ==
    {EPoint(pos.elevation, Unwrap(Go(pos.point, d))) :
        d \in {e \in 1 .. Len(Directions) : Go(pos.point, e) # None}}

\* Every moment of is_blocked_at(obj, pos): the check closure borrows the
\* handle it is given, the neighbour loop borrows each handle for its flag
\* test and then hands it to the closure.
BorrowsIsBlockedAt(pos) ==
    EachShared(At(by_pos, pos))
    \cup UNION {EachShared(At(by_pos, near)) : near \in NearTiles(pos)}

\* Every moment of is_sight_blocked_at(obj, pos).
BorrowsIsSightBlockedAt(pos) == EachShared(At(by_pos, pos))

\* Every moment of shot_blocker_at(obj, pos).
BorrowsShotBlockerAt(pos) ==
    EachShared(At(by_pos, pos))
    \cup UNION {EachShared(At(by_pos, near)) : near \in NearTiles(pos)}

\* Every moment of is_shot_blocked(shooter, target): each position is read
\* through a borrow that ends with its statement; the loop calls
\* shot_blocker_at and borrows the blocker it found.
BorrowsIsShotBlocked(shooter, target) ==
    {<<Shared(shooter)>>}
    \cup (IF objects[shooter].pos = None THEN {} ELSE {<<Shared(target)>>})
    \cup (IF \/ objects[shooter].pos = None
             \/ objects[target].pos = None
             \/ Unwrap(objects[shooter].pos).elevation
                    # Unwrap(objects[target].pos).elevation
          THEN {}
          ELSE LET pos == Unwrap(objects[shooter].pos)
                   ray == Ray(pos.point, Unwrap(objects[target].pos).point)
               IN  UNION {BorrowsShotBlockerAt(EPoint(pos.elevation, ray[k])) :
                             k \in 1 .. Len(ray)})

\* The one moment of distance(from, to): both borrows are alive in the call.
BorrowsDistance(from, to) == {<<Shared(from), Shared(to)>>}

\* Every moment of can_talk(obj1, obj2): o1 and o2 stay borrowed to the end,
\* and the path finder asks is_sight_blocked_at about tiles of the elevation.
BorrowsCanTalk(obj1, obj2) ==
    While(<<Shared(obj1), Shared(obj2)>>,
          IF \/ objects[obj1].pos = None
             \/ objects[obj2].pos = None
             \/ Unwrap(objects[obj1].pos).elevation # Unwrap(objects[obj2].pos).elevation
             \/ HexDistance(Unwrap(objects[obj1].pos).point,
                            Unwrap(objects[obj2].pos).point) > TalkDistance
          THEN {}
          ELSE UNION {BorrowsIsSightBlockedAt(EPoint(Unwrap(objects[obj1].pos).elevation, p)) :
                         p \in Points})

\* Every moment of can_talk_now(obj1, obj2).
BorrowsCanTalkNow(obj1, obj2) ==
    BorrowsDistance(obj1, obj2)
    \cup (IF distance(obj1, obj2) # None /\ Unwrap(distance(obj1, obj2)) < TalkNowDistance
          THEN BorrowsIsShotBlocked(obj1, obj2)
          ELSE {})

\* Every moment of can_push(pusher, pushed): pushedo stays borrowed to the end.
BorrowsCanPush(pusher, pushed) ==
    While(<<Shared(pushed)>>,
          IF \/ Kind(pushed) # "Critter"
             \/ pusher = pushed
             \/ ~is_active(Unwrap(objects[pushed].sub))
          THEN {}
          ELSE BorrowsCanTalk(pusher, pushed))

\* Every moment of path(obj, to, ..): o stays borrowed to the end; the call
\* asks is_blocked_at about the target, and the cost closure asks it about
\* tiles of the elevation and borrows each handle of the tile for the goo test.
BorrowsPath(obj, to) ==
    While(<<Shared(obj)>>,
          IF objects[obj].pos = None THEN {}
          ELSE UNION {BorrowsIsBlockedAt(EPoint(Unwrap(objects[obj].pos).elevation, p))
                          \cup EachShared(At(by_pos, EPoint(Unwrap(objects[obj].pos).elevation, p))) :
                         p \in Points \cup {to}})

\* The moment of can_use, can_talk_to, item_kind and bounds.
BorrowsOne(obj) == {<<Shared(obj)>>}

\* Every moment of light_test and of hit_test over the tile pos.
BorrowsScan(pos) == EachShared(At(by_pos, pos))

\* Every moment of render and render_outlines over the tile pos: each object
\* is borrowed exclusively while it is drawn.
BorrowsRender(pos) ==
    {<<Exclusive(At(by_pos, pos)[k])>> : k \in 1 .. Len(At(by_pos, pos))}

\* The moment of remove_from_tile_grid(h).
BorrowsRemoveFromTileGrid(h) == {<<Exclusive(h)>>}

\* insert_into_tile_grid that still holds its exclusive borrow of h while it
\* searches the tile list.
BorrowsInsertIntoTileGrid_KeepsExclusive(st, h, pos) ==
    IF pos = None THEN {}
    ELSE {<<Exclusive(h)>>}
         \cup While(<<Exclusive(h), Shared(h)>>, EachShared(At(st.by_pos, Unwrap(pos))))

\* Every moment of insert_into_tile_grid(h, pos, ..) in the store st: the
\* exclusive borrow ends with its block; the search holds a shared borrow of
\* h and borrows each handle it compares with.
BorrowsInsertIntoTileGrid(st, h, pos) ==
    IF pos = None THEN {}
    ELSE {<<Exclusive(h)>>}
         \cup While(<<Shared(h)>>, EachShared(At(st.by_pos, Unwrap(pos))))

\* Every moment of insert(obj) for an object constructed with pos.
BorrowsInsert(pos) ==
    BorrowsInsertIntoTileGrid(Store(objects, by_pos, detached), SlotInsert.key, pos)

\* Every moment of set_pos(h, pos).
BorrowsSetPos(h, pos) ==
    BorrowsRemoveFromTileGrid(h)
    \cup BorrowsInsertIntoTileGrid(RemoveFromTileGrid(Cur, h), h, Some(pos))

\* Every moment of set_screen_shift, add_screen_shift and reset_screen_shift
\* on h: the shift is written through an exclusive borrow between the removal
\* and the insertion.
BorrowsSetScreenShift(h) ==
    BorrowsRemoveFromTileGrid(h)
    \cup {<<Exclusive(h)>>}
    \cup BorrowsInsertIntoTileGrid(RemoveFromTileGrid(Cur, h), h, objects[h].pos)

\* Every moment of make_standing(h).
BorrowsMakeStanding(h) == {<<Exclusive(h)>>} \cup BorrowsSetScreenShift(h)

\* The tiles the borrow behaviours use, and the targets of their path calls.
BorrowPositions == {EPoint(0, Point(0, y)) : y \in 0 .. 1}

\* Every moment of every query, over all its arguments.
BorrowsQueries ==
    UNION ({BorrowsIsBlockedAt(pos) \cup BorrowsIsSightBlockedAt(pos)
               \cup BorrowsShotBlockerAt(pos) \cup BorrowsScan(pos) : pos \in Positions}
           \cup {BorrowsIsShotBlocked(a, b) \cup BorrowsDistance(a, b)
                    \cup BorrowsCanTalk(a, b) \cup BorrowsCanTalkNow(a, b)
                    \cup BorrowsCanPush(a, b) : a \in Live, b \in Live}
           \cup {BorrowsPath(a, to) : a \in Live, to \in {pos.point : pos \in BorrowPositions}}
           \cup {BorrowsOne(a) : a \in Live})

\* Every moment of every operation that writes to an object.
BorrowsMutations ==
    UNION ({BorrowsRender(pos) : pos \in Positions}
           \cup {BorrowsInsert(pos) : pos \in {None} \cup {Some(p) : p \in BorrowPositions}}
           \cup {BorrowsSetPos(h, pos) : h \in Live, pos \in BorrowPositions}
           \cup {BorrowsSetScreenShift(h) \cup BorrowsMakeStanding(h) : h \in Live})

(* ----------------------------- actions -------------------------------- *)

Init ==
    /\ slots = <<>>
    /\ free_head = 1
    /\ objects = <<>>
    /\ by_pos = [p \in Positions |-> <<>>]
    /\ detached = <<>>
    /\ issued = <<>>
    /\ clears = 0
    /\ rd = <<>>
    /\ codec = None

\* Objects::insert, called while fewer than max objects are live.
InsertUnder(obj, max) ==
    /\ Cardinality(Live) < max
    /\ LET a == SlotInsert
           h == a.key
           st == Store(objects @@ (h :> obj), by_pos, detached)
       IN  /\ slots' = a.slots
           /\ free_head' = a.free_head
           /\ issued' = Append(issued, [handle |-> h, epoch |-> clears])
           /\ \E st2 \in InsertIntoTileGrid(st, h, obj.pos, TRUE) : Becomes(st2)
    /\ UNCHANGED <<clears, rd, codec>>

\* Objects::insert
Insert(obj) == InsertUnder(obj, MaxObjects)

\* Objects::clear
Clear ==
    /\ clears < MaxClears
    /\ LET d == SlotDrain(slots, free_head, 1)
       IN  /\ slots' = d.slots
           /\ free_head' = d.free_head
    /\ objects' = <<>>
    /\ by_pos' = [p \in Positions |-> <<>>]
    /\ detached' = <<>>
    /\ clears' = clears + 1
    /\ UNCHANGED <<issued, rd, codec>>

\* Objects::set_pos
SetPos(h, pos) ==
    /\ h \in Live
    /\ \E st2 \in InsertIntoTileGrid(RemoveFromTileGrid(Cur, h), h, Some(pos), TRUE) :
           Becomes(st2)
    /\ UNCHANGED <<slots, free_head, issued, clears, rd, codec>>

\* The body shared by set_screen_shift and make_standing's tail call.
SetScreenShiftIn(st, h, shift) ==
    LET pos == st.objects[h].pos
        st1 == RemoveFromTileGrid(st, h)
        st2 == [st1 EXCEPT !.objects[h].screen_shift = shift]
    IN  InsertIntoTileGrid(st2, h, pos, FALSE)

\* Objects::set_screen_shift
SetScreenShift(h, shift) ==
    /\ h \in Live
    /\ \E st2 \in SetScreenShiftIn(Cur, h, shift) : Becomes(st2)
    /\ UNCHANGED <<slots, free_head, issued, clears, rd, codec>>

\* add_screen_shift that stores the delta in place of the sum.
NewShift_Replaces(h, shift) == shift

\* The shift add_screen_shift stores and returns.
NewShift(h, shift) == PointAdd(objects[h].screen_shift, shift)

\* Objects::add_screen_shift, called while the sum stays within max.
AddScreenShiftUnder(h, shift, max) ==
    /\ h \in Live
    /\ LET new_shift == NewShift(h, shift)
           pos == objects[h].pos
           st1 == RemoveFromTileGrid(Cur, h)
           st2 == [st1 EXCEPT !.objects[h].screen_shift = new_shift]
       IN  /\ new_shift.x + new_shift.y <= max
           /\ \E st3 \in InsertIntoTileGrid(st2, h, pos, FALSE) : Becomes(st3)
    /\ UNCHANGED <<slots, free_head, issued, clears, rd, codec>>

\* Objects::add_screen_shift
AddScreenShift(h, shift) == AddScreenShiftUnder(h, shift, MaxShift)

\* Objects::reset_screen_shift
ResetScreenShift(h) ==
    /\ h \in Live
    /\ LET pos == objects[h].pos
       IN  \E st2 \in InsertIntoTileGrid(RemoveFromTileGrid(Cur, h), h, pos, TRUE) :
               Becomes(st2)
    /\ UNCHANGED <<slots, free_head, issued, clears, rd, codec>>

\* The shift make_standing computes for an object.
StandingShift(obj) ==
    IF obj.fid.kind = "Critter" /\ obj.fid.weapon # "Unarmed"
    THEN PointAdd(SumPoints(TakeOutFrameShifts), StandCenter)
    ELSE Point(0, 0)

\* The frame id make_standing gives an object.
StandingFid(fid) ==
    IF fid.kind = "Critter"
    THEN [fid EXCEPT !.anim = IF @ = "FireDance" THEN "FireDance" ELSE "Stand"]
    ELSE fid

\* Objects::make_standing
MakeStanding(h) ==
    /\ h \in Live
    /\ LET shift == StandingShift(objects[h])
           st1 == [Cur EXCEPT !.objects[h].fid = StandingFid(@),
                              !.objects[h].frame_idx = 0]
       IN  \E st2 \in SetScreenShiftIn(st1, h, shift) : Becomes(st2)
    /\ UNCHANGED <<slots, free_head, issued, clears, rd, codec>>

(* ------------------------------ inputs -------------------------------- *)

\* Screen shifts the callers pass to set_screen_shift.
ShiftInputs == {s \in {Point(x, y) : x, y \in 0 .. MaxShift} : s.x + s.y <= MaxShift}

\* Screen shift deltas the callers pass to add_screen_shift.
ShiftDeltas == {Point(1, 0), Point(0, 1)}

\* Draw-order behaviours: one tile on every elevation.
DrawPositions == {EPoint(e, Point(0, 0)) : e \in Elevations}

\* Objects the draw-order behaviours insert: a flat floor decal and an armed
\* walking critter, placed or detached.
DrawInputs ==
    {Object(Fid("Item", "None", "None"), PidNone, pos, {"Flat"}, Point(0, 0)) :
        pos \in {Some(p) : p \in DrawPositions} \cup {None}}
    \cup
    {Object(Fid("Critter", "Walk", "Knife"), PidDude, pos, {}, Point(0, 0)) :
        pos \in {Some(p) : p \in DrawPositions} \cup {None}}
    \cup
    {Object(Fid("Critter", "Walk", "Knife"), PidDude, None, {}, Point(0, 1))}

Next ==
    \/ \E obj \in DrawInputs : Insert(obj)
    \/ \E h \in Live, pos \in DrawPositions : SetPos(h, pos)
    \/ \E h \in Live, s \in ShiftInputs : SetScreenShift(h, s)
    \/ \E h \in Live, d \in ShiftDeltas : AddScreenShift(h, d)
    \/ \E h \in Live : ResetScreenShift(h)
    \/ \E h \in Live : MakeStanding(h)

Spec == Init /\ [][Next]_vars

\* Lifecycle behaviours: every operation, clear included, over two tiles of
\* one elevation, one tile of another, and the detached list.
LifePositions ==
    {EPoint(0, Point(0, 0)), EPoint(0, Point(0, 1)), EPoint(ElevationCount - 1, Point(0, 0))}

LifeInputs ==
    {Object(Fid("Scenery", "None", "None"), PidNone, pos, {}, Point(0, 0)) :
        pos \in {Some(p) : p \in LifePositions} \cup {None}}

NextLife ==
    \/ \E obj \in LifeInputs : Insert(obj)
    \/ Clear
    \/ \E h \in Live, pos \in LifePositions : SetPos(h, pos)
    \/ \E h \in Live, s \in ShiftInputs : SetScreenShift(h, s)
    \/ \E h \in Live, d \in ShiftDeltas : AddScreenShift(h, d)
    \/ \E h \in Live : ResetScreenShift(h)
    \/ \E h \in Live : MakeStanding(h)

SpecLife == Init /\ [][NextLife]_vars

\* Query behaviours: three tiles in a line on elevation 0, one tile of another
\* elevation and the detached list.
QueryPositions ==
    {EPoint(0, Point(0, y)) : y \in 0 .. 2} \cup {EPoint(ElevationCount - 1, Point(0, 1))}

\* The kinds and flags of the objects the query behaviours insert.
QueryKinds ==
    {<<"Critter", {}>>,
     <<"Item", {}>>,
     <<"Wall", {"MultiHex", "ShootThru"}>>,
     <<"Critter", {"MultiHex", "NoBlock"}>>,
     <<"Scenery", {"NoBlock", "ShootThru"}>>,
     <<"Wall", {"TurnedOff", "MultiHex"}>>}

QueryInputs ==
    {Object(Fid(k[1], IF k[1] = "Critter" THEN "Stand" ELSE "None",
                IF k[1] = "Critter" THEN "Unarmed" ELSE "None"),
            PidNone, pos, k[2], Point(0, 0)) :
        k \in QueryKinds, pos \in {Some(p) : p \in QueryPositions} \cup {None}}

NextQuery ==
    \/ \E obj \in QueryInputs : Insert(obj)
    \/ \E h \in Live, pos \in QueryPositions : SetPos(h, pos)

SpecQuery == Init /\ [][NextQuery]_vars

\* Codec behaviours: the bytes a reader may hold and the ids a caller packs.
ByteInputs == {0, 1, 11, 255}

ReaderInputs == UNION {[1 .. n -> ByteInputs] : n \in 3 .. 4}

ProtoIdInputs ==
    {Unwrap(ProtoIdFromPacked(v)) :
        v \in {w \in [1 .. 4 -> ByteInputs] : ProtoIdFromPacked(w) # None}}

ObjectProtoIdInputs == {PidNone, PidDude} \cup {PidProto(p) : p \in ProtoIdInputs}

InitCodec ==
    /\ slots = <<>>
    /\ free_head = 1
    /\ objects = <<>>
    /\ by_pos = [p \in Positions |-> <<>>]
    /\ detached = <<>>
    /\ issued = <<>>
    /\ clears = 0
    /\ rd \in ReaderInputs
    /\ codec = None

\* ObjectProtoId::read: decodes the next four bytes of the reader.
Read ==
    /\ rd # <<>>
    /\ codec' = Some([op |-> "read", raw |-> rd, res |-> ObjectProtoIdRead(rd)])
    /\ rd' = IF Len(rd) < 4 THEN <<>> ELSE SubSeq(rd, 5, Len(rd))
    /\ UNCHANGED <<slots, free_head, objects, by_pos, detached, issued, clears>>

\* x.pack() followed by ObjectProtoId::from_packed.
PackUnpack(x) ==
    /\ codec' = Some([op |-> "pack", x |-> x, raw |-> ObjectProtoIdPack(x),
                      res |-> ObjectProtoIdFromPacked(ObjectProtoIdPack(x))])
    /\ UNCHANGED <<slots, free_head, objects, by_pos, detached, issued, clears, rd>>

NextCodec ==
    \/ Read
    \/ \E x \in ObjectProtoIdInputs : PackUnpack(x)

SpecCodec == InitCodec /\ [][NextCodec]_vars

\* Shot behaviours: a shooter, a target and what stands between them, on
\* three tiles of one straight line.
RayPositions == {EPoint(0, Point(0, y)) : y \in 0 .. 2}

RayKinds ==
    {<<"Critter", {}>>,
     <<"Item", {}>>,
     <<"Wall", {}>>,
     <<"Wall", {"TurnedOff"}>>}

RayInputs ==
    {Object(Fid(k[1], IF k[1] = "Critter" THEN "Stand" ELSE "None",
                IF k[1] = "Critter" THEN "Unarmed" ELSE "None"),
            PidNone, Some(pos), k[2], Point(0, 0)) :
        k \in RayKinds, pos \in RayPositions}

NextRay == \E obj \in RayInputs : InsertUnder(obj, MaxRayObjects)

SpecRay == Init /\ [][NextRay]_vars

\* Talk behaviours: tiles of one line at the distances the talk limits
\* separate, a tile of another elevation, and the detached list.
TalkPositions ==
    {EPoint(0, Point(0, y)) : y \in {0, 1, TalkNowDistance, TalkDistance + 1}}
    \cup {EPoint(ElevationCount - 1, Point(0, 0))}

TalkKinds ==
    {<<"Critter", {}>>,
     <<"Critter", {"MultiHex"}>>,
     <<"Wall", {}>>}

TalkInputs ==
    {Object(Fid(k[1], IF k[1] = "Critter" THEN "Stand" ELSE "None",
                IF k[1] = "Critter" THEN "Unarmed" ELSE "None"),
            PidNone, pos, k[2], Point(0, 0)) :
        k \in TalkKinds, pos \in {Some(p) : p \in TalkPositions} \cup {None}}

NextTalk ==
    \/ \E obj \in TalkInputs : Insert(obj)
    \/ \E h \in Live, pos \in TalkPositions : SetPos(h, pos)

SpecTalk == Init /\ [][NextTalk]_vars

\* Light behaviours: one tile, and the light tests made on it.
LightPositions == {EPoint(0, Point(0, 0))}

\* The sub-indices of the light tests, on both sides of the limits the wall
\* geometry distinguishes.
LightIndices == {7, 8, 15, 16}

\* The objects the light behaviours insert: walls of every geometry that
\* block light or let it through, a wall without a prototype, a flat wall,
\* a scenery that blocks, an item that lets light through and a wall that is
\* turned off.
LightInputs ==
    {Object(Fid("Wall", "None", "None"), PidProto(p), Some(pos), flags, Point(0, 0)) :
        p \in DOMAIN ProtoFlagsExt, flags \in {{}, {"LightThru"}}, pos \in LightPositions}
    \cup
    {Object(Fid("Wall", "None", "None"), PidNone, Some(pos), {"LightThru"}, Point(0, 0)) :
        pos \in LightPositions}
    \cup
    {Object(Fid("Wall", "None", "None"), PidProto(U32(3, 0, 0, 1)), Some(pos), flags,
            Point(0, 0)) :
        flags \in {{"Flat", "LightThru"}, {"TurnedOff"}}, pos \in LightPositions}
    \cup
    {Object(Fid("Scenery", "None", "None"), PidNone, Some(pos), {}, Point(0, 0)) :
        pos \in LightPositions}
    \cup
    {Object(Fid("Item", "None", "None"), PidNone, Some(pos), {"LightThru"}, Point(0, 0)) :
        pos \in LightPositions}

NextLight == \E obj \in LightInputs : Insert(obj)

SpecLight == Init /\ [][NextLight]_vars

\* Path behaviours: three tiles of one line, and the detached list.
PathPositions == {EPoint(0, Point(0, y)) : y \in 0 .. 2}

\* The destinations the callers of path ask for.
PathTargets == {p.point : p \in PathPositions}

\* The objects the path behaviours insert: the dude, a gecko, another
\* critter, and a pool of radioactive goo one may walk through.
PathInputs ==
    {Object(Fid("Critter", "Stand", "Unarmed"), pid, pos, {}, Point(0, 0)) :
        pid \in {PidDude, PidProto(U32(1, 0, 0, 1)), PidProto(U32(1, 0, 0, 2))},
        pos \in {Some(p) : p \in PathPositions} \cup {None}}
    \cup
    {Object(Fid("Scenery", "None", "None"), PidProto(U32(2, 0, 3, 217)), pos,
            {"NoBlock"}, Point(0, 0)) :
        pos \in {Some(p) : p \in PathPositions} \cup {None}}

NextPath ==
    \/ \E obj \in PathInputs : Insert(obj)
    \/ \E h \in Live, pos \in PathPositions : SetPos(h, pos)

SpecPath == Init /\ [][NextPath]_vars

\* A caller changes the flags of an object in place, through
\* get(h).borrow_mut(); the tile lists are not touched.
SetFlags(h, flags) ==
    /\ h \in Live
    /\ objects' = [objects EXCEPT ![h].flags = flags]
    /\ UNCHANGED <<slots, free_head, by_pos, detached, issued, clears, rd, codec>>

\* Render behaviours: two tiles, and objects that are flat or not, turned off
\* or not.
RenderPositions == {EPoint(0, Point(0, y)) : y \in 0 .. 1}

RenderFlags == {{}, {"Flat"}, {"TurnedOff"}, {"Flat", "TurnedOff"}}

RenderInputs ==
    {Object(Fid("Item", "None", "None"), PidNone, Some(pos), flags, Point(0, 0)) :
        flags \in RenderFlags, pos \in RenderPositions}

NextRender ==
    \/ \E obj \in RenderInputs : Insert(obj)
    \/ \E h \in Live, pos \in RenderPositions : SetPos(h, pos)
    \/ \E h \in Live, flags \in RenderFlags : SetFlags(h, flags)

SpecRender == Init /\ [][NextRender]_vars

\* Push and use behaviours: critters with and without a script, active or
\* dead, placed or detached, and an item that can be used.
PushPositions == {EPoint(0, Point(0, y)) : y \in 0 .. 1}

PushScripts == {None, Some("SidPush"), Some("SidNoPush")}

PushInputs ==
    {[Object(Fid("Critter", "Stand", "None"), PidNone, pos, {}, Point(0, 0))
        EXCEPT !.script = script, !.sub = Some([damage_flags |-> damage])] :
        pos \in {None} \cup {Some(p) : p \in PushPositions},
        script \in PushScripts,
        damage \in {{}, {"Dead"}}}
    \cup {Object(Fid("Item", "None", "None"), PidProto(p), Some(pos), {}, Point(0, 0)) :
            p \in {U32(0, 0, 0, 205), U32(0, 0, 0, 79)}, pos \in PushPositions}

NextPush ==
    \/ \E obj \in PushInputs : Insert(obj)
    \/ \E h \in Live, pos \in PushPositions : SetPos(h, pos)

SpecPush == Init /\ [][NextPush]_vars

\* Borrow behaviours: critters placed on two tiles or detached, and an item.
BorrowInputs ==
    {Object(Fid("Critter", "Stand", "Unarmed"), PidDude, pos, {}, Point(0, 0)) :
        pos \in {None} \cup {Some(p) : p \in BorrowPositions}}
    \cup {Object(Fid("Item", "None", "None"), PidNone, Some(pos), {"Flat"}, Point(0, 0)) :
            pos \in BorrowPositions}

NextBorrow ==
    \/ \E obj \in BorrowInputs : Insert(obj)
    \/ \E h \in Live, pos \in BorrowPositions : SetPos(h, pos)
    \/ \E h \in Live, s \in ShiftInputs : SetScreenShift(h, s)
    \/ \E h \in Live : MakeStanding(h)

SpecBorrow == Init /\ [][NextBorrow]_vars

\* Move behaviours: two tiles and the detached list; an item constructed
\* with the shift (0, 0) and a scenery whose shift the caller set to (0, 1)
\* before the insert.
MovePositions == {EPoint(0, Point(0, y)) : y \in 0 .. 1}

MoveObjects ==
    {Object(Fid("Item", "None", "None"), PidNone, pos, {}, Point(0, 0)) :
        pos \in {None} \cup {Some(p) : p \in MovePositions}}
    \cup {Object(Fid("Scenery", "None", "None"), PidNone, pos, {}, Point(0, 1)) :
            pos \in {None} \cup {Some(p) : p \in MovePositions}}

NextMove ==
    \/ \E obj \in MoveObjects : Insert(obj)
    \/ \E h \in Live, pos \in MovePositions : SetPos(h, pos)
    \/ \E h \in Live, s \in ShiftInputs : SetScreenShift(h, s)

SpecMove == Init /\ [][NextMove]_vars

\* Shift behaviours: one tile and the detached list, and shifts that
\* accumulate.
ShiftObjects ==
    {Object(Fid("Item", "None", "None"), PidNone, pos, {}, Point(0, 0)) :
        pos \in {None, Some(EPoint(0, Point(0, 0)))}}

NextShift ==
    \/ \E obj \in ShiftObjects : Insert(obj)
    \/ \E h \in Live, s \in ShiftInputs : SetScreenShift(h, s)
    \/ \E h \in Live, d \in ShiftDeltas : AddScreenShiftUnder(h, d, MaxShiftSum)
    \/ \E h \in Live : ResetScreenShift(h)

SpecShift == Init /\ [][NextShift]_vars

(* ------------------------------ claims -------------------------------- *)

Occurrences(list, h) == Cardinality({i \in 1 .. Len(list) : list[i] = h})

Reverse(c) == CASE c = "Less" -> "Greater" [] c = "Greater" -> "Less" [] c = "Equal" -> "Equal"

IsFlat(h) == "Flat" \in objects[h].flags

\* C1: every live handle is indexed exactly once: a placed object occurs once
\* in the tile list of its own elevation and coordinate and in no other tile
\* list nor in the detached list; a detached object occurs once in the
\* detached list and in no tile list.
C1_IndexedExactlyOnce ==
    \A h \in Live :
        IF objects[h].pos # None
        THEN /\ Unwrap(objects[h].pos) \in Positions
             /\ \A p \in Positions :
                    Occurrences(by_pos[p], h) = IF p = Unwrap(objects[h].pos) THEN 1 ELSE 0
             /\ Occurrences(detached, h) = 0
        ELSE /\ \A p \in Positions : Occurrences(by_pos[p], h) = 0
             /\ Occurrences(detached, h) = 1

\* A cleared and refilled container holding a placed object that shares its
\* tile with another, a shifted object, and a detached object.
C1_Witness ==
    /\ clears > 0
    /\ \E h \in Live : objects[h].pos # None /\ Len(by_pos[Unwrap(objects[h].pos)]) > 1
    /\ \E h \in Live : objects[h].screen_shift # Point(0, 0)
    /\ \E h \in Live : objects[h].pos = None

\* C2: every tile list is sorted by cmp_objs: no handle compares Greater
\* than its successor in the list.
C2_TileListsSorted ==
    \A p \in Positions : \A i \in 1 .. Len(by_pos[p]) - 1 :
        cmp_objs(objects[by_pos[p][i]], objects[by_pos[p][i + 1]]) # "Greater"

\* A tile list of three handles, strictly ascending, that is not in the order
\* the handles were issued.
C2_Witness ==
    \E p \in Positions :
        /\ Len(by_pos[p]) = 3
        /\ \A i \in 1 .. 2 :
               cmp_objs(objects[by_pos[p][i]], objects[by_pos[p][i + 1]]) = "Less"
        /\ by_pos[p][1].idx > by_pos[p][3].idx

\* The step is an operation that (re-)inserts h into a tile list: an insert
\* that returns h, or a move or shift of h.
Inserts(h) ==
    /\ objects'[h].pos # None
    /\ \/ /\ h \notin Live
          /\ \E obj \in DrawInputs : Insert(obj)
       \/ /\ h \in Live
          /\ \A g \in Live \ {h} : objects'[g] = objects[g]
          /\ \/ SetPos(h, Unwrap(objects'[h].pos))
             \/ \E s \in ShiftInputs : SetScreenShift(h, s)
             \/ \E d \in ShiftDeltas : AddScreenShift(h, d)
             \/ ResetScreenShift(h)
             \/ MakeStanding(h)

\* In the new list of p the other handles keep their order, and h stands
\* immediately after the last handle that compares Equal to it.
StableAt(h, p) ==
    LET new == by_pos'[p]
        k == CHOOSE i \in 1 .. Len(new) : new[i] = h
        equal == {i \in 1 .. Len(new) :
                     new[i] # h /\ cmp_objs(objects'[new[i]], objects'[h]) = "Equal"}
    IN  /\ Occurrences(new, h) = 1
        /\ VecRetainNe(new, h) = VecRetainNe(by_pos[p], h)
        /\ \A i \in equal : i < k
        /\ equal # {} => k - 1 \in equal

\* C3: insertion into a tile list is stable among ties: the inserted handle
\* is placed immediately after the last handle that compares Equal to it,
\* and the handles already in the list keep their relative order.
C3_StableInsertion ==
    [][\A h \in DOMAIN objects' :
           Inserts(h) => StableAt(h, Unwrap(objects'[h].pos))]_vars

\* Three handles of equal draw order share a tile, in an order that differs
\* from the order of their first insertion.
C3_Witness ==
    \E p \in Positions :
        /\ Len(by_pos[p]) = 3
        /\ \A i \in 1 .. 2 :
               cmp_objs(objects[by_pos[p][i]], objects[by_pos[p][i + 1]]) = "Equal"
        /\ by_pos[p][1].idx > by_pos[p][2].idx

\* The key cmp_objs orders by: flatness, then total shift y, then total shift x.
DrawKey(o) ==
    LET shift == PointAdd(o.screen_shift, FrameShift(o.fid, o.frame_idx))
    IN  <<IF "Flat" \in o.flags THEN 0 ELSE 1, shift.y, shift.x>>

LexCmp(k1, k2) ==
    IF k1 = k2 THEN "Equal"
    ELSE LET i == CHOOSE i \in 1 .. 3 : k1[i] # k2[i] /\ \A j \in 1 .. i - 1 : k1[j] = k2[j]
         IN  IF k1[i] < k2[i] THEN "Less" ELSE "Greater"

\* C4: cmp_objs is the total order keyed by (flat first, shift y, shift x):
\* it is antisymmetric and transitive, a flat object is Less than a non-flat
\* one, and in every tile list the flat handles precede the non-flat ones.
C4_CmpTotalOrder ==
    /\ \A e \in Elevations :
         LET placed == {h \in Live : objects[h].pos # None
                                     /\ Unwrap(objects[h].pos).elevation = e}
         IN  \A a, b, c \in placed :
               LET oa == objects[a]
                   ob == objects[b]
                   oc == objects[c]
               IN  /\ cmp_objs(oa, ob) = LexCmp(DrawKey(oa), DrawKey(ob))
                   /\ cmp_objs(oa, ob) = Reverse(cmp_objs(ob, oa))
                   /\ (cmp_objs(oa, ob) # "Greater" /\ cmp_objs(ob, oc) # "Greater")
                          => cmp_objs(oa, oc) # "Greater"
                   /\ (IsFlat(a) /\ ~IsFlat(b)) => cmp_objs(oa, ob) = "Less"
    /\ \A p \in Positions : \A i, j \in 1 .. Len(by_pos[p]) :
         (IsFlat(by_pos[p][j]) /\ ~IsFlat(by_pos[p][i])) => j < i

\* A flat object stands before a non-flat object of the same tile that was
\* inserted before it.
C4_Witness ==
    \E p \in Positions : \E i, j \in 1 .. Len(by_pos[p]) :
        /\ i < j
        /\ IsFlat(by_pos[p][i]) /\ ~IsFlat(by_pos[p][j])
        /\ by_pos[p][i].idx > by_pos[p][j].idx
        /\ Len(by_pos[p]) = 3

IssuedHandles == {issued[i].handle : i \in 1 .. Len(issued)}

\* C5: insert never returns a handle it has returned before, so a new handle
\* differs from every live one and from every one a clear has invalidated;
\* contains is true exactly for the handles issued since the last clear; and
\* the tile lists and the detached list hold live handles only, so all are
\* empty after a clear.
C5_HandlesFresh ==
    /\ \A i, j \in 1 .. Len(issued) : i # j => issued[i].handle # issued[j].handle
    /\ \A i \in 1 .. Len(issued) : Contains(issued[i].handle) <=> issued[i].epoch = clears
    /\ Live \subseteq IssuedHandles
    /\ \A p \in Positions : \A k \in 1 .. Len(by_pos[p]) : Contains(by_pos[p][k])
    /\ \A k \in 1 .. Len(detached) : Contains(detached[k])

\* After a clear a slot has been reused: a live handle has the index of a
\* handle issued before the clear.
C5_Witness ==
    /\ clears > 0
    /\ \E h \in Live : \E i \in 1 .. Len(issued) :
           /\ issued[i].epoch < clears
           /\ issued[i].handle.idx = h.idx
           /\ ~Contains(issued[i].handle)

Placed(h) == objects[h].pos # None

PosOf(h) == Unwrap(objects[h].pos)

\* The handles in the tile list of pos.
Occupants(pos) == {by_pos[pos][k] : k \in 1 .. Len(by_pos[pos])}

\* The in-grid tiles adjacent to pos, on its elevation.
Neighbours(pos) ==
    {q \in {EPoint(pos.elevation, Point(x, y)) :
                x \in pos.point.x - 1 .. pos.point.x + 1,
                y \in pos.point.y - 1 .. pos.point.y + 1} \cap Positions :
        HexDistance(q.point, pos.point) = 1}

\* C7: distance is symmetric; for two placed objects it is the raw hex
\* distance minus one per MultiHex endpoint, floored at zero; it is None
\* when either object is detached.
C7_Distance ==
    \A a, b \in Live :
        /\ distance(a, b) = distance(b, a)
        /\ (~Placed(a) \/ ~Placed(b)) => distance(a, b) = None
        /\ (Placed(a) /\ Placed(b)) =>
             LET raw == HexDistance(PosOf(a).point, PosOf(b).point)
                 multi == (IF HasFlag(a, "MultiHex") THEN 1 ELSE 0)
                          + (IF HasFlag(b, "MultiHex") THEN 1 ELSE 0)
             IN  distance(a, b) = Some(Max(raw - multi, 0))

\* Two MultiHex objects on adjacent tiles (the floor applies), a third object
\* two tiles from one of them, and the distance of a MultiHex object to itself.
C7_Witness ==
    \E a, b, c \in Live :
        /\ a # b /\ Placed(a) /\ Placed(b) /\ Placed(c)
        /\ HasFlag(a, "MultiHex") /\ HasFlag(b, "MultiHex")
        /\ HexDistance(PosOf(a).point, PosOf(b).point) = 1
        /\ distance(a, b) = Some(0)
        /\ HexDistance(PosOf(a).point, PosOf(c).point) = 2
        /\ distance(a, c) = Some(1)

NotBlocking(h) == HasFlag(h, "TurnedOff") \/ HasFlag(h, "NoBlock")

\* A MultiHex critter, scenery or wall other than obj that is neither turned
\* off nor no-block stands on a tile adjacent to pos.
MultiHexBlockerNear(obj, pos) ==
    \E q \in Neighbours(pos) : \E h \in Occupants(q) :
        /\ h # obj
        /\ HasFlag(h, "MultiHex")
        /\ Kind(h) \in {"Critter", "Scenery", "Wall"}
        /\ ~NotBlocking(h)

\* C8 as stated: is_blocked_at(obj, pos) is false whenever every occupant of
\* pos is turned off or no-block, and true whenever a critter that is neither
\* occupies pos, for every obj and every configuration of the neighbours.
C8_AsStated ==
    \A obj \in Live, pos \in Positions :
        /\ (\A h \in Occupants(pos) : NotBlocking(h)) => ~is_blocked_at(obj, pos)
        /\ (\E h \in Occupants(pos) : Kind(h) = "Critter" /\ ~NotBlocking(h))
               => is_blocked_at(obj, pos)

\* C8 amended: is_blocked_at(obj, pos) is false whenever every occupant of
\* pos is turned off or no-block and no adjacent tile holds a MultiHex
\* blocker other than obj; it is true whenever a critter other than obj that
\* is neither turned off nor no-block occupies pos.
C8_Amended ==
    \A obj \in Live, pos \in Positions :
        /\ ((\A h \in Occupants(pos) : NotBlocking(h)) /\ ~MultiHexBlockerNear(obj, pos))
               => ~is_blocked_at(obj, pos)
        /\ (\E h \in Occupants(pos) : h # obj /\ Kind(h) = "Critter" /\ ~NotBlocking(h))
               => is_blocked_at(obj, pos)

\* A tile whose only occupant is flagged, next to a tile with an unflagged
\* critter that is not MultiHex, is not blocked, while that critter's tile is
\* blocked for the others.
C8_Witness ==
    \E obj \in Live, pos \in Positions :
        /\ Occupants(pos) # {}
        /\ \A h \in Occupants(pos) : NotBlocking(h)
        /\ ~is_blocked_at(obj, pos)
        /\ \E q \in Neighbours(pos) :
               /\ \E h \in Occupants(q) : h # obj /\ Kind(h) = "Critter" /\ ~NotBlocking(h)
               /\ is_blocked_at(obj, q)

\* C9: is_blocked_at(obj, pos) holds exactly when some handle other than obj
\* is a critter, scenery or wall, neither turned off nor no-block, and stands
\* on pos, or is MultiHex and stands on an in-grid tile adjacent to pos on
\* the same elevation; an object never blocks itself.
C9_BlockedIff ==
    \A obj \in Live, pos \in Positions :
        is_blocked_at(obj, pos) <=>
            \E h \in Live \ {obj} :
                /\ Kind(h) \in {"Critter", "Scenery", "Wall"}
                /\ ~HasFlag(h, "TurnedOff")
                /\ ~HasFlag(h, "NoBlock")
                /\ Placed(h)
                /\ \/ PosOf(h) = pos
                   \/ HasFlag(h, "MultiHex") /\ PosOf(h) \in Neighbours(pos)

\* A MultiHex wall blocks its own tile and an adjacent tile for another
\* object but not for itself, and does not block a tile two steps away nor
\* the same tile on another elevation.
C9_Witness ==
    \E obj, other \in Live :
        /\ obj # other
        /\ Placed(obj) /\ HasFlag(obj, "MultiHex") /\ Kind(obj) = "Wall"
        /\ ~NotBlocking(obj)
        /\ is_blocked_at(other, PosOf(obj)) /\ ~is_blocked_at(obj, PosOf(obj))
        /\ \E q \in Neighbours(PosOf(obj)) :
               is_blocked_at(other, q) /\ ~is_blocked_at(obj, q)
        /\ \E q \in Positions :
               /\ q.elevation = PosOf(obj).elevation
               /\ HexDistance(q.point, PosOf(obj).point) = 2
               /\ ~is_blocked_at(other, q)
        /\ \E q \in Positions :
               /\ q.elevation # PosOf(obj).elevation
               /\ q.point = PosOf(obj).point
               /\ ~is_blocked_at(other, q)

\* The handles of the tile list of pos that block a shot of obj.
TileShotBlockers(obj, pos) ==
    {k \in 1 .. Len(by_pos[pos]) :
        LET h == by_pos[pos][k]
        IN  /\ Kind(h) \in {"Scenery", "Wall", "Critter"}
            /\ h # obj
            /\ ~HasFlag(h, "TurnedOff")
            /\ (~HasFlag(h, "NoBlock") \/ ~HasFlag(h, "ShootThru"))}

\* C10: shot_blocker_at(obj, pos) returns the first handle of the tile list
\* of pos that is a scenery, wall or critter other than obj, not turned off,
\* and not no-block or not shoot-through; failing that it returns a blocker
\* whenever an adjacent tile holds a MultiHex scenery, wall or critter other
\* than obj that is neither turned off nor no-block, whatever precedes it in
\* that tile's list; it returns None only when neither case applies.
C10_ShotBlocker ==
    \A obj \in Live, pos \in Positions :
        LET ks == TileShotBlockers(obj, pos)
        IN  IF ks # {}
            THEN shot_blocker_at(obj, pos)
                     = Some(by_pos[pos][CHOOSE k \in ks : \A j \in ks : k <= j])
            ELSE shot_blocker_at(obj, pos) # None <=> MultiHexBlockerNear(obj, pos)

\* The tiles is_shot_blocked(a, b) visits, as positions.
RayTiles(a, b) ==
    LET ray == Ray(PosOf(a).point, PosOf(b).point)
    IN  [k \in 1 .. Len(ray) |-> EPoint(PosOf(a).elevation, ray[k])]

SameElevation(a, b) ==
    Placed(a) /\ Placed(b) /\ PosOf(a).elevation = PosOf(b).elevation

\* is_shot_blocked(a, b) is true exactly when the shot blocker of some ray
\* tile is neither the target nor a critter.  The shooter is never a shot
\* blocker of its own shot, and the blocker recorded from an earlier step is
\* a critter or the target, so such a blocker always differs from it.
ShotBlockedIff(a, b) ==
    is_shot_blocked(a, b) =
        Return(\E k \in DOMAIN RayTiles(a, b) :
                   LET blocker == shot_blocker_at(a, RayTiles(a, b)[k])
                   IN  /\ blocker # None
                       /\ Unwrap(blocker) # a /\ Unwrap(blocker) # b
                       /\ Kind(Unwrap(blocker)) # "Critter")

\* C11 as stated: is_shot_blocked(shooter, target) is true exactly when at
\* some step of the ray the shot blocker is new, is neither shooter nor
\* target and is not a critter; so a wall that is neither shoot-through nor
\* no-block (nor turned off) on an intervening ray tile yields true, and a
\* ray with only critters in between yields false.
C11_AsStated ==
    \A a, b \in Live : SameElevation(a, b) =>
        LET tiles == RayTiles(a, b)
            between == {tiles[k] : k \in 1 .. Len(tiles) - 1}
            ray == {tiles[k] : k \in DOMAIN tiles}
        IN  /\ ShotBlockedIff(a, b)
            /\ (\E t \in between : \E w \in Occupants(t) :
                    /\ Kind(w) = "Wall"
                    /\ ~HasFlag(w, "ShootThru") /\ ~HasFlag(w, "NoBlock")
                    /\ ~HasFlag(w, "TurnedOff"))
                   => is_shot_blocked(a, b) = Return(TRUE)
            /\ (/\ between # {}
                /\ \A t \in ray : \A h \in Occupants(t) \ {b} : Kind(h) = "Critter")
                   => is_shot_blocked(a, b) = Return(FALSE)

\* C11 amended: is_shot_blocked(shooter, target) is true exactly when at
\* some step of the ray, the target's tile included, the shot blocker is
\* neither shooter nor target and is not a critter; so a ray tile whose first
\* shot blocker in list order is a wall or scenery other than the target
\* yields true, and a ray on whose tiles and their neighbours every scenery
\* and wall other than shooter and target is turned off yields false.
C11_Amended ==
    \A a, b \in Live : SameElevation(a, b) =>
        LET tiles == RayTiles(a, b)
            ray == {tiles[k] : k \in DOMAIN tiles}
        IN  /\ ShotBlockedIff(a, b)
            /\ (\E t \in ray :
                    LET ks == TileShotBlockers(a, t)
                    IN  /\ ks # {}
                        /\ LET first == by_pos[t][CHOOSE k \in ks : \A j \in ks : k <= j]
                           IN  first # b /\ Kind(first) \in {"Wall", "Scenery"})
                   => is_shot_blocked(a, b) = Return(TRUE)
            /\ (\A t \in ray : \A q \in {t} \cup Neighbours(t) :
                    \A h \in Occupants(q) \ {a, b} :
                        Kind(h) \in {"Wall", "Scenery"} => HasFlag(h, "TurnedOff"))
                   => is_shot_blocked(a, b) = Return(FALSE)

\* A shot over two tiles is not blocked, a critter standing in between, while
\* the shot back is blocked by a wall that precedes the first shooter in its
\* tile list.
C11_Witness ==
    \E a, b \in Live :
        /\ SameElevation(a, b)
        /\ Len(RayTiles(a, b)) = 2
        /\ \E c \in Occupants(RayTiles(a, b)[1]) : Kind(c) = "Critter"
        /\ is_shot_blocked(a, b) = Return(FALSE)
        /\ is_shot_blocked(b, a) = Return(TRUE)
        /\ \E w \in Occupants(PosOf(a)) : Kind(w) = "Wall" /\ ~HasFlag(w, "TurnedOff")

\* The tiles that can be reached from the tiles of s through tiles of open.
RECURSIVE Closure(_, _)
Closure(s, open) ==
    LET more == {q \in open \ s : \E p \in s : HexDistance(p, q) = 1}
    IN  IF more = {} THEN s ELSE Closure(s \cup more, open)

\* A path leads from from to to that enters no tile of blocked.
PathExists(from, to, blocked) ==
    \/ from = to
    \/ to \in Closure({from}, Points \ blocked)

\* C12: for two placed objects a and b, can_talk(a, b) is Err(Unreachable)
\* if their elevations differ; otherwise Err(TooFar) if the raw hex distance
\* of their tiles exceeds 12, distance 12 not being too far; in both cases
\* the path finder is not run; otherwise the path finder is run once, a tile
\* blocked exactly when is_sight_blocked_at(a, tile) holds, and the result is
\* Ok iff a path exists and Err(Unreachable) otherwise.
C12_CanTalk ==
    \A a, b \in Live : (Placed(a) /\ Placed(b)) =>
        LET e == PosOf(a).elevation
            from == PosOf(a).point
            to == PosOf(b).point
            sight_blocked == {p \in Points : is_sight_blocked_at(a, EPoint(e, p))}
        IN  can_talk(a, b) =
                IF PosOf(b).elevation # e
                THEN Return([result |-> "Unreachable", finds |-> 0])
                ELSE IF HexDistance(from, to) > 12
                THEN Return([result |-> "TooFar", finds |-> 0])
                ELSE IF PathExists(from, to, sight_blocked)
                THEN Return([result |-> "Ok", finds |-> 1])
                ELSE Return([result |-> "Unreachable", finds |-> 1])

\* Two objects at distance 12 can talk, while a third one, at distance 13 of
\* one of them, is too far from it.
C12_Witness ==
    \E a, b, c \in Live :
        /\ Placed(a) /\ Placed(b) /\ Placed(c)
        /\ PosOf(a).elevation = PosOf(b).elevation
        /\ PosOf(c).elevation = PosOf(b).elevation
        /\ HexDistance(PosOf(a).point, PosOf(b).point) = 12
        /\ can_talk(a, b) = Return([result |-> "Ok", finds |-> 1])
        /\ HexDistance(PosOf(c).point, PosOf(b).point) = 13
        /\ can_talk(c, b) = Return([result |-> "TooFar", finds |-> 0])

\* C13 as stated: for any two placed objects a and b, can_talk_now(a, b) is
\* true iff the hex distance of their tiles is less than 9 and
\* is_shot_blocked(a, b) is false; for every other pair it is false.
C13_AsStated ==
    \A a, b \in Live : (Placed(a) /\ Placed(b)) =>
        can_talk_now(a, b) =
            Return(/\ HexDistance(PosOf(a).point, PosOf(b).point) < 9
                   /\ is_shot_blocked(a, b) = Return(FALSE))

\* C13 amended: for any two objects a and b placed on the same elevation,
\* can_talk_now(a, b) is true iff distance(a, b), the hex distance of their
\* tiles less one per MultiHex endpoint and floored at zero, is less than 9
\* and is_shot_blocked(a, b) is false, and it is false otherwise; for placed
\* objects on different elevations it is false when that distance is 9 or
\* more, and it aborts on the assertion of is_shot_blocked when it is less.
C13_Amended ==
    \A a, b \in Live : (Placed(a) /\ Placed(b)) =>
        LET raw == HexDistance(PosOf(a).point, PosOf(b).point)
            multi == (IF HasFlag(a, "MultiHex") THEN 1 ELSE 0)
                     + (IF HasFlag(b, "MultiHex") THEN 1 ELSE 0)
            near == Max(raw - multi, 0) < 9
        IN  IF PosOf(a).elevation = PosOf(b).elevation
            THEN can_talk_now(a, b) =
                     Return(near /\ is_shot_blocked(a, b) = Return(FALSE))
            ELSE can_talk_now(a, b) = IF near THEN Abort ELSE Return(FALSE)

\* A MultiHex critter at hex distance 9 can talk now to one that a plain
\* critter standing on the same tile, at the same distance, cannot.
C13_Witness ==
    \E a, b, c \in Live :
        /\ Placed(a) /\ Placed(b) /\ Placed(c)
        /\ HasFlag(a, "MultiHex") /\ ~HasFlag(b, "MultiHex") /\ ~HasFlag(c, "MultiHex")
        /\ PosOf(a) = PosOf(c)
        /\ PosOf(a).elevation = PosOf(b).elevation
        /\ HexDistance(PosOf(a).point, PosOf(b).point) = 9
        /\ can_talk_now(a, b) = Return(TRUE)
        /\ can_talk_now(c, b) = Return(FALSE)

\* The directions, and for some of them the sub-indices, in which a non-flat
\* wall of the given geometry keeps the light from updating.
Suppresses(flags_ext, dir, i) ==
    LET d == Directions[dir]
    IN  IF "WallEastOrWest" \in flags_ext \/ "WallEastCorner" \in flags_ext
        THEN d \in {"E", "SE"} \/ (d = "NE" /\ i >= 8) \/ (d = "SW" /\ i <= 15)
        ELSE IF "WallNorthCorner" \in flags_ext
        THEN d \in {"E", "SE", "SW", "W"}
        ELSE IF "WallSouthCorner" \in flags_ext
        THEN d = "SE" \/ (d = "SW" /\ i <= 15)
        ELSE d \in {"SE", "SW", "W"} \/ (d = "NW" /\ i <= 7)

\* The indices of the handles of list that are not turned off.
LitUp(list) == {k \in 1 .. Len(list) : ~HasFlag(list[k], "TurnedOff")}

\* The indices of the handles of list that block light.
LightBlockers(list) == {k \in LitUp(list) : ~HasFlag(list[k], "LightThru")}

\* The index at which light_test stops walking list.
LightStop(list) ==
    IF LightBlockers(list) = {} THEN Len(list)
    ELSE CHOOSE k \in LightBlockers(list) : \A j \in LightBlockers(list) : k <= j

NonFlatWall(h) == Kind(h) = "Wall" /\ ~HasFlag(h, "Flat")

\* Every non-flat wall light_test looks at has a prototype in the database.
WallsHaveProto(list) ==
    \A k \in LitUp(list) : (k <= LightStop(list) /\ NonFlatWall(list[k])) =>
        /\ objects[list[k]].pid.tag = "ProtoId"
        /\ objects[list[k]].pid.id \in DOMAIN ProtoFlagsExt

\* The update value light_test has computed when it stops: false iff a
\* non-flat wall it walked past or stopped at keeps the light from updating,
\* or the object it stopped at is no wall and the light comes from E, SE or
\* SW.
UpdateSoFar(list, dir, i) ==
    /\ \A k \in LitUp(list) : (k <= LightStop(list) /\ NonFlatWall(list[k])) =>
           ~Suppresses(ProtoFlagsExt[objects[list[k]].pid.id], dir, i)
    /\ \A k \in LightBlockers(list) : (k = LightStop(list) /\ Kind(list[k]) # "Wall") =>
           Directions[dir] \notin {"E", "SE", "SW"}

C15_PathTrimmed ==
    \A obj \in Live, to \in PathTargets, allow \in BOOLEAN : Placed(obj) =>
        LET found == PathFound(obj, to, allow)
            r == Path(obj, to, allow)
        IN  /\ ~r.abort
            /\ found = None => r = Return(None)
            /\ (found # None /\ ~(allow /\ is_blocked_at(obj, EPoint(PosOf(obj).elevation, to))))
                   => r = Return(found)
            /\ (/\ found # None /\ allow
                /\ is_blocked_at(obj, EPoint(PosOf(obj).elevation, to))
                /\ Len(Unwrap(found)) > 0)
                   => r = Return(Some(SubSeq(Unwrap(found), 1, Len(Unwrap(found)) - 1)))

\* The tile list of pos holds a pool of radioactive goo.
HoldsGoo(pos) ==
    \E h \in Occupants(pos) :
        /\ objects[h].pid.tag = "ProtoId"
        /\ IsRadioactiveGoo(objects[h].pid.id)

\* The kill kind of the prototype of obj is the one immune to the goo.
IsGecko(obj) ==
    /\ objects[obj].pid.tag = "ProtoId"
    /\ objects[obj].pid.id \in DOMAIN ProtoKillKind
    /\ ProtoKillKind[objects[obj].pid.id] = "Gecko"

\* C16: the cost function of path(obj, to, ...) answers Blocked for a tile
\* exactly when is_blocked_at(obj, tile) holds, except that to is never
\* Blocked when allow_neighbor_tile is true; for every other tile it answers
\* Passable, with cost 400, or 100 for a gecko, when the tile holds
\* radioactive goo, and with cost 0 when it holds none; and this for every
\* requesting object, one whose pid is Dude or None included.
C16_PathCost ==
    \A obj \in Live, to \in PathTargets, allow \in BOOLEAN : Placed(obj) =>
        \A p \in PathTargets :
            LET tile == EPoint(PosOf(obj).elevation, p)
                state == PathCost(obj, PosOf(obj).elevation, to, allow, p)
            IN  /\ state.blocked <=> (is_blocked_at(obj, tile) /\ ~(allow /\ p = to))
                /\ ~state.blocked =>
                       state.cost = IF HoldsGoo(tile)
                                    THEN IF IsGecko(obj) THEN 100 ELSE 400
                                    ELSE 0

\* The places of h in a sequence of submissions.
Draws(drawn, h) == {n \in 1 .. Len(drawn) : drawn[n].handle = h}

\* C17: in one render call over an elevation, after any sequence of
\* container operations and of flag changes made in place, every object of a
\* visible tile that is not turned off is submitted exactly once, a flat one
\* in the first pass and any other in the second, the objects of one tile in
\* the order of its list within a pass; a turned-off object is never
\* submitted, and no flat object is left undrawn.
C17_RenderedOnce ==
    \A e \in Elevations :
        LET drawn == Render(e)
            here == {h \in Live : Placed(h) /\ PosOf(h).elevation = e}
        IN  /\ \A n \in 1 .. Len(drawn) : drawn[n].handle \in here
            /\ \A h \in here :
                   IF HasFlag(h, "TurnedOff") THEN Draws(drawn, h) = {}
                   ELSE /\ Cardinality(Draws(drawn, h)) = 1
                        /\ \A n \in Draws(drawn, h) : drawn[n].flat = HasFlag(h, "Flat")
            /\ \A m, n \in 1 .. Len(drawn) :
                   (/\ m < n
                    /\ drawn[m].flat = drawn[n].flat
                    /\ PosOf(drawn[m].handle) = PosOf(drawn[n].handle))
                   => \E i, j \in 1 .. Len(by_pos[PosOf(drawn[m].handle)]) :
                          /\ i < j
                          /\ by_pos[PosOf(drawn[m].handle)][i] = drawn[m].handle
                          /\ by_pos[PosOf(drawn[m].handle)][j] = drawn[n].handle

\* C18: can_talk, can_push and can_use report a negative outcome as a result
\* value and never as a failure: for every pair of live handles, the objects
\* placed or detached, and for can_push in combat or not, the call returns a
\* value.
C18_NoFailure ==
    \A obj1, obj2 \in Live :
        /\ ~can_talk(obj1, obj2).abort
        /\ \A in_combat \in BOOLEAN : ~can_push(obj1, obj2, in_combat).abort
        /\ ~can_use(obj1).abort

\* C19: reset_screen_shift(h) on any live object h, placed or detached,
\* leaves h with the screen_shift (0, 0) and with the pos it had, in the list
\* it was in.
C19_ResetShift ==
    [][\A h \in Live :
          ResetScreenShift(h) =>
              /\ objects'[h].screen_shift = Point(0, 0)
              /\ objects'[h].pos = objects[h].pos
              /\ IF objects[h].pos = None
                 THEN \E i \in 1 .. Len(detached') : detached'[i] = h
                 ELSE \E i \in 1 .. Len(by_pos'[Unwrap(objects[h].pos)]) :
                          by_pos'[Unwrap(objects[h].pos)][i] = h]_vars

\* C20: no operation of the container, called while the caller holds no
\* object borrow, has a moment at which an exclusive borrow of an object
\* coexists with another borrow of that object: the queries take shared
\* borrows only, also when their handle arguments alias and when the queried
\* object sits in a scanned tile list, and the mutating operations hold no
\* exclusive borrow when they scan a tile list.
C20_BorrowDiscipline ==
    /\ \A held \in BorrowsQueries :
           \A i \in 1 .. Len(held) : ~held[i].exclusive
    /\ \A held \in BorrowsQueries \cup BorrowsMutations : BorrowOk(held)

\* An object is borrowed twice at one moment of a query with aliased handle
\* arguments, the queried object sits in a tile list its own path query
\* scans, can_push reaches the tile scan of can_talk with the pusher in the
\* scanned tile, and a mutating operation compares the object it moves with
\* an occupant of the target tile.
C20_Witness ==
    /\ \E a \in Live :
           /\ <<Shared(a), Shared(a)>> \in BorrowsCanTalk(a, a)
           /\ \E to \in {pos.point : pos \in BorrowPositions} : <<Shared(a), Shared(a)>> \in BorrowsPath(a, to)
    /\ \E a, b \in Live :
           <<Shared(b), Shared(a), Shared(b), Shared(a)>> \in BorrowsCanPush(a, b)
    /\ \E h, o \in Live :
           /\ h # o
           /\ Placed(o)
           /\ <<Shared(h), Shared(o)>> \in BorrowsSetPos(h, PosOf(o))

\* C21: set_pos(h, p) on any live handle h, placed or detached before,
\* leaves h with pos = Some(p) and screen_shift = (0, 0) whatever its shift
\* was; insert of an object constructed with a position stores it with
\* screen_shift = (0, 0), and insert of an object without a position keeps
\* the screen_shift it was constructed with.
C21_PosResetsShift ==
    [][/\ \A h \in Live, p \in MovePositions :
              SetPos(h, p) =>
                  /\ objects'[h].pos = Some(p)
                  /\ objects'[h].screen_shift = Point(0, 0)
       /\ \A obj \in MoveObjects :
              Insert(obj) =>
                  /\ SlotInsert.key \in DOMAIN objects'
                  /\ objects'[SlotInsert.key].pos = obj.pos
                  /\ objects'[SlotInsert.key].screen_shift =
                         IF obj.pos # None THEN Point(0, 0) ELSE obj.screen_shift]_vars

\* A scenery, which is constructed with the shift (0, 1), is placed with the
\* shift (0, 0); another is detached and has kept its shift; and a placed
\* object carries a shift that a set_pos would clear.
C21_Witness ==
    /\ \E h \in Live :
           /\ Kind(h) = "Scenery"
           /\ Placed(h)
           /\ objects[h].screen_shift = Point(0, 0)
    /\ \E h \in Live :
           /\ Kind(h) = "Scenery"
           /\ ~Placed(h)
           /\ objects[h].screen_shift = Point(0, 1)
    /\ \E h \in Live : Placed(h) /\ objects[h].screen_shift # Point(0, 0)

\* The step is a set_screen_shift, add_screen_shift or reset_screen_shift of h.
ShiftStep(h) ==
    \/ \E s \in ShiftInputs : SetScreenShift(h, s)
    \/ \E d \in ShiftDeltas : AddScreenShiftUnder(h, d, MaxShiftSum)
    \/ ResetScreenShift(h)

\* C22: set_screen_shift(h, s), add_screen_shift(h, d) and
\* reset_screen_shift(h) change nothing but h's screen_shift and h's index
\* inside its own list: h's pos, every other object, the membership of every
\* tile list and of the detached list, and the relative order of the other
\* handles in every list are unchanged; add_screen_shift returns the old
\* screen_shift plus d, which is the shift stored afterwards.
C22_ShiftFrame ==
    [][\A h \in Live :
          /\ ShiftStep(h) =>
                 /\ DOMAIN objects' = DOMAIN objects
                 /\ objects'[h] = [objects[h] EXCEPT !.screen_shift = objects'[h].screen_shift]
                 /\ \A o \in Live \ {h} : objects'[o] = objects[o]
                 /\ \A p \in Positions :
                        /\ Occurrences(by_pos'[p], h) = Occurrences(by_pos[p], h)
                        /\ VecRetainNe(by_pos'[p], h) = VecRetainNe(by_pos[p], h)
                 /\ Occurrences(detached', h) = Occurrences(detached, h)
                 /\ VecRetainNe(detached', h) = VecRetainNe(detached, h)
                 /\ slots' = slots /\ free_head' = free_head
          /\ \A d \in ShiftDeltas :
                 AddScreenShiftUnder(h, d, MaxShiftSum) =>
                     /\ NewShift(h, d) = PointAdd(objects[h].screen_shift, d)
                     /\ objects'[h].screen_shift = NewShift(h, d)]_vars

\* An object whose shift only accumulated nudges reach has moved behind a
\* handle issued after it in the list of their tile, and a detached object
\* carries a shift.
C22_Witness ==
    /\ \E h \in Live : ~Placed(h) /\ objects[h].screen_shift # Point(0, 0)
    /\ \E h \in Live :
           /\ Placed(h)
           /\ objects[h].screen_shift.x + objects[h].screen_shift.y = MaxShiftSum
           /\ Len(by_pos[PosOf(h)]) = 2
           /\ by_pos[PosOf(h)][2] = h
           /\ by_pos[PosOf(h)][1].idx > h.idx

Sentinels == {U32(255, 255, 255, 255), U32(1, 0, 0, 0)}

\* C6 as stated: from_packed(x.pack()) = Some(x) for None, Dude and every
\* ProtoId(p), those whose packed form is a reserved sentinel included; and
\* every value that is neither a sentinel nor a valid packed prototype id
\* fails to decode, read reporting malformed data.
C6_AsStated ==
    codec # None =>
        LET c == Unwrap(codec)
        IN  /\ c.op = "pack" => c.res = Some(c.x)
            /\ (c.op = "read" /\ Len(c.raw) = 4 /\ c.raw \notin Sentinels
                    /\ ProtoIdFromPacked(c.raw) = None)
                   => (~c.res.ok /\ c.res.err = "InvalidData")

\* C6 amended: from_packed(x.pack()) = Some(x) for None, Dude and every
\* ProtoId(p) whose packed form is not a reserved sentinel, while a ProtoId
\* packed as 0x01000000 decodes as Dude; and every value that is neither a
\* sentinel nor a valid packed prototype id fails to decode, read reporting
\* malformed data.
C6_Amended ==
    codec # None =>
        LET c == Unwrap(codec)
        IN  /\ (c.op = "pack" /\ ~(c.x.tag = "ProtoId" /\ c.raw \in Sentinels))
                   => c.res = Some(c.x)
            /\ (c.op = "pack" /\ c.x.tag = "ProtoId" /\ c.raw = U32(1, 0, 0, 0))
                   => c.res = Some(PidDude)
            /\ (c.op = "read" /\ Len(c.raw) = 4 /\ c.raw \notin Sentinels
                    /\ ProtoIdFromPacked(c.raw) = None)
                   => (~c.res.ok /\ c.res.err = "InvalidData")

\* A prototype id next to the Dude sentinel has been packed and decoded back.
C6_Witness ==
    /\ codec # None
    /\ Unwrap(codec).op = "pack"
    /\ Unwrap(codec).x = PidProto(U32(1, 0, 0, 1))
    /\ Unwrap(codec).res = Some(PidProto(U32(1, 0, 0, 1)))

====
